---------------------------- MODULE Spec2Model ----------------------------
(***************************************************************************)
(* goLV: NIPALS PCA / PLS, preprocessing and matrix helpers.               *)
(*                                                                         *)
(* float64 values are modelled as binary floating-point numbers with a     *)
(* significand of Prec bits (instead of 53), round-to-nearest-even on      *)
(* every operation, an unbounded exponent, and the IEEE-754 special values *)
(* +Inf, -Inf and NaN.  A finite value is [k |-> "num", m |-> m, e |-> e]  *)
(* and stands for m * 2^e; it is kept canonical (m odd, or m = 0, e = 0).  *)
(* Signed zeros, overflow and underflow are not modelled.                  *)
(*                                                                         *)
(* A gonum *mat.Dense is a reference into a heap of matrix values, so that *)
(* aliasing and in-place mutation are modelled as the code performs them.  *)
(* A matrix value is [r |-> rows, c |-> cols, d |-> rows of float values]. *)
(***************************************************************************)
EXTENDS Integers, Sequences, FiniteSets, TLC

\* ------------------------------------------------------------------ bounds
\* bits of significand of the modelled floating-point format
Prec == 5

\* largest number of rows and of columns of an input matrix
MaxRows == 3

MaxCols == 2

\* largest number of matrices handed to StackDenseMatrices
MaxList == 3

\* largest number of rows of the matrices of a PLS fit
PlsRows == 2

\* largest number of components and of inner iterations of a PLS fit
MaxComp == 2

MaxIter == 2

\* largest number of rows of the matrix of a PCA fit
PcaRows == 2

\* ---------------------------------------------------------- floating point
Abs(n) == IF n < 0 THEN -n ELSE n

Sign(n) == IF n < 0 THEN -1 ELSE IF n > 0 THEN 1 ELSE 0

Max2(a, b) == IF a >= b THEN a ELSE b

Min2(a, b) == IF a <= b THEN a ELSE b

RECURSIVE BitLen(_)
\* number of binary digits of n >= 0
BitLen(n) == IF n = 0 THEN 0 ELSE 1 + BitLen(n \div 2)

RECURSIVE Strip(_, _)
\* canonical form of m * 2^e: m odd, or zero
Strip(m, e) ==
    IF m = 0 THEN [k |-> "num", m |-> 0, e |-> 0]
    ELSE IF m % 2 = 0 THEN Strip(m \div 2, e + 1)
    ELSE [k |-> "num", m |-> m, e |-> e]

\* n * 2^e rounded to Prec significant bits, ties to even
RoundF(n, e) ==
    LET a == Abs(n)
        s == BitLen(a) - Prec
    IN  IF s <= 0 THEN Strip(n, e)
        ELSE LET q    == a \div (2 ^ s)
                 r    == a % (2 ^ s)
                 half == 2 ^ (s - 1)
                 up   == r > half \/ (r = half /\ q % 2 = 1)
                 q2   == IF up THEN q + 1 ELSE q
             IN  Strip(Sign(n) * q2, e + s)

Zero == [k |-> "num", m |-> 0, e |-> 0]

PosInf == [k |-> "inf", m |-> 1, e |-> 0]

NegInf == [k |-> "inf", m |-> -1, e |-> 0]

NaN == [k |-> "nan", m |-> 0, e |-> 0]

IsNum(a) == a.k = "num"

IsInf(a) == a.k = "inf"

IsNaN(a) == a.k = "nan"

\* float64(n) for an integer n
F(n) == RoundF(n, 0)

FNeg(a) == [a EXCEPT !.m = -a.m]

\* order of magnitude of a finite nonzero value: 2^(Mag-1) <= |a| < 2^Mag
Mag(a) == BitLen(Abs(a.m)) + a.e

\* sum of two finite values
NumAdd(a, b) ==
    IF a.m = 0 THEN b
    ELSE IF b.m = 0 THEN a
    ELSE LET hi  == IF a.e >= b.e THEN a ELSE b
             lo  == IF a.e >= b.e THEN b ELSE a
             gap == hi.e - lo.e
         IN  IF gap > 2 * Prec + 2 THEN hi
             ELSE RoundF(hi.m * (2 ^ gap) + lo.m, lo.e)

FAdd(a, b) ==
    IF IsNaN(a) \/ IsNaN(b) THEN NaN
    ELSE IF IsInf(a) /\ IsInf(b) THEN (IF a.m = b.m THEN a ELSE NaN)
    ELSE IF IsInf(a) THEN a
    ELSE IF IsInf(b) THEN b
    ELSE NumAdd(a, b)

FSub(a, b) == FAdd(a, FNeg(b))

FMul(a, b) ==
    IF IsNaN(a) \/ IsNaN(b) THEN NaN
    ELSE IF IsInf(a) \/ IsInf(b)
         THEN (IF a.m = 0 \/ b.m = 0 THEN NaN
               ELSE IF Sign(a.m) = Sign(b.m) THEN PosInf ELSE NegInf)
    ELSE RoundF(a.m * b.m, a.e + b.e)

\* quotient of two finite values, b nonzero: the quotient is taken to
\* 2*Prec+2 fractional bits and a sticky bit keeps the rounding correct
NumDiv(a, b) ==
    LET sh == 2 * Prec + 2
        n  == Abs(a.m) * (2 ^ sh)
        d  == Abs(b.m)
        q  == n \div d
        st == IF n % d = 0 THEN 0 ELSE 1
    IN  RoundF(Sign(a.m) * Sign(b.m) * (2 * q + st), a.e - b.e - sh - 1)

FDiv(a, b) ==
    IF IsNaN(a) \/ IsNaN(b) THEN NaN
    ELSE IF IsInf(a) THEN (IF IsInf(b) THEN NaN
                           ELSE IF Sign(a.m) * (IF b.m < 0 THEN -1 ELSE 1) > 0
                                THEN PosInf ELSE NegInf)
    ELSE IF IsInf(b) THEN Zero
    ELSE IF b.m = 0 THEN (IF a.m = 0 THEN NaN
                          ELSE IF a.m > 0 THEN PosInf ELSE NegInf)
    ELSE NumDiv(a, b)

RECURSIVE ISqrtFrom(_, _, _)
\* largest s in lo..hi with s*s <= n
ISqrtFrom(n, lo, hi) ==
    IF lo >= hi THEN lo
    ELSE LET mid == (lo + hi + 1) \div 2
         IN  IF mid * mid <= n THEN ISqrtFrom(n, mid, hi)
             ELSE ISqrtFrom(n, lo, mid - 1)

ISqrt(n) == ISqrtFrom(n, 0, 2 ^ ((BitLen(n) + 1) \div 2))

\* square root of a finite positive value
NumSqrt(a) ==
    LET want == 2 * Prec + 4
        k0   == want - BitLen(a.m)
        k    == IF (a.e - k0) % 2 = 0 THEN k0 ELSE k0 + 1
        n    == a.m * (2 ^ k)
        s    == ISqrt(n)
        st   == IF s * s = n THEN 0 ELSE 1
    IN  RoundF(2 * s + st, ((a.e - k) \div 2) - 1)

FSqrt(a) ==
    IF IsNaN(a) THEN NaN
    ELSE IF IsInf(a) THEN (IF a.m > 0 THEN PosInf ELSE NaN)
    ELSE IF a.m < 0 THEN NaN
    ELSE IF a.m = 0 THEN Zero
    ELSE NumSqrt(a)

\* a < b for finite values
NumLt(a, b) ==
    IF Sign(a.m) # Sign(b.m) THEN Sign(a.m) < Sign(b.m)
    ELSE IF a.m = 0 THEN FALSE
    ELSE IF Mag(a) # Mag(b)
         THEN (IF a.m > 0 THEN Mag(a) < Mag(b) ELSE Mag(a) > Mag(b))
    ELSE LET lowE == Min2(a.e, b.e)
         IN  a.m * (2 ^ (a.e - lowE)) < b.m * (2 ^ (b.e - lowE))

\* the Go comparison a < b (false when either side is NaN)
FLt(a, b) ==
    IF IsNaN(a) \/ IsNaN(b) THEN FALSE
    ELSE IF IsInf(a) THEN a.m < 0 /\ ~(IsInf(b) /\ b.m < 0)
    ELSE IF IsInf(b) THEN b.m > 0
    ELSE NumLt(a, b)

\* the Go comparison a == b (false when either side is NaN)
FEq(a, b) == ~IsNaN(a) /\ ~IsNaN(b) /\ a = b

FAbs(a) == [a EXCEPT !.m = Abs(a.m)]

\* the value m * 2^e, not rounded
Exact(m, e) == Strip(m, e)

\* ---------------------------------------------------------------- matrices
\* mat.NewDense(r, c, nil): an r x c matrix of zeros
NewDense(r, c) == [r |-> r, c |-> c, d |-> [i \in 1..r |-> [j \in 1..c |-> Zero]]]

\* X.At(i, j), with the model's indices starting at 1
At(M, i, j) == M.d[i][j]

\* column j of M as a sequence (ColView, mat.Col)
Col(M, j) == [i \in 1..M.r |-> M.d[i][j]]

\* RawMatrix().Data: the entries in row-major order
RECURSIVE Flatten(_)
Flatten(rows) == IF rows = <<>> THEN <<>> ELSE Head(rows) \o Flatten(Tail(rows))

RawData(M) == Flatten(M.d)

\* M.T()
Transpose(M) == [r |-> M.c, c |-> M.r, d |-> [i \in 1..M.c |-> [j \in 1..M.r |-> M.d[j][i]]]]

RECURSIVE SumFrom(_, _)
\* acc + s[1] + s[2] + ... accumulated from left to right
SumFrom(acc, s) == IF s = <<>> THEN acc ELSE SumFrom(FAdd(acc, Head(s)), Tail(s))

\* mat.Sum / floats.Sum
Sum(s) == SumFrom(Zero, s)

\* the inner product accumulated from left to right
Dot(a, b) == Sum([k \in 1..Len(a) |-> FMul(a[k], b[k])])

\* the product A * B (receiver.Mul(A, B)), defined when A.c = B.r
MatMul(A, B) ==
    [r |-> A.r, c |-> B.c,
     d |-> [i \in 1..A.r |-> [j \in 1..B.c |-> Dot(A.d[i], Col(B, j))]]]

\* the difference A - B (receiver.Sub(A, B)), defined for equal shapes
MatSub(A, B) ==
    [r |-> A.r, c |-> A.c,
     d |-> [i \in 1..A.r |-> [j \in 1..A.c |-> FSub(A.d[i][j], B.d[i][j])]]]

\* receiver.Scale(f, A) and floats.Scale(f, data)
MatScale(f, A) ==
    [r |-> A.r, c |-> A.c,
     d |-> [i \in 1..A.r |-> [j \in 1..A.c |-> FMul(f, A.d[i][j])]]]

\* floats.Norm(data, 2) and mat.Norm(M, 2): the Euclidean / Frobenius norm
Norm2(s) == FSqrt(Sum([k \in 1..Len(s) |-> FMul(s[k], s[k])]))

\* M with column j replaced by the sequence s (SetCol)
SetCol(M, j, s) ==
    [M EXCEPT !.d = [i \in 1..M.r |-> [M.d[i] EXCEPT ![j] = s[i]]]]

\* a freshly allocated object holding the value M
Alloc(h, M) == [heap |-> Append(h, M), ref |-> Len(h) + 1]

\* all r x c matrices with entries in the set V
Matrices(r, c, V) ==
    {[r |-> r, c |-> c, d |-> d] : d \in [1..r -> [1..c -> V]]}

VARIABLES
    pre,    \* a call of one preprocessing function (pkg/preprocess)
    stk,    \* a call of StackDenseMatrices (pkg/pls)
    pls,    \* a PLS fit followed by a prediction (pkg/pls)
    pca,    \* a PCA fit (pkg/pca)
    utl,    \* a call of CreateFilledSlice (pkg/utils)
    csv,    \* a call of ProcessCSV (pkg/readdata)
    cli,    \* a run of the PCA command line program
    vpc,    \* a call of CalculateVariancePercentages (pkg/pca)
    isv,    \* a call of initialScoreVector (pkg/pca)
    s2d     \* a call of SliceToDense and DenseToSlice (pkg/utils)

vars == <<pre, stk, pls, pca, utl, csv, cli, vpc, isv, s2d>>

\* the nil pointer
Nil == 0

\* a variable of a part of the program that is not running
Idle == [pc |-> "idle"]

\* ------------------------------------------------------------ preprocessing
\* colMean dividing by r - 1 instead of r
colMeanOffByOne(X) == [j \in 1..X.c |-> FDiv(Sum(Col(X, j)), F(X.r - 1))]

\* colMean: the mean of each column
colMean(X) == [j \in 1..X.c |-> FDiv(Sum(Col(X, j)), F(X.r))]

\* MeanCenter: a new matrix holding X minus the column means, and the means
MeanCenter(h, x) ==
    LET X        == h[x]
        colMeans == colMean(X)
        zeros    == Alloc(h, NewDense(X.r, X.c))
        centered == [zeros.heap[zeros.ref] EXCEPT
                       !.d = [i \in 1..X.r |-> [j \in 1..X.c |->
                                FSub(At(X, i, j), colMeans[j])]]]
    IN  [heap     |-> [zeros.heap EXCEPT ![zeros.ref] = centered],
         ref      |-> zeros.ref,
         colMeans |-> colMeans,
         colStd   |-> <<>>]

\* colStdDev with the sample divisor r - 1 instead of r
colStdDevSample(X) ==
    LET colMeans == [j \in 1..X.c |-> FDiv(Sum(Col(X, j)), F(X.r))]
    IN  [j \in 1..X.c |->
           LET sq(i) == LET diff == FSub(At(X, i, j), colMeans[j])
                        IN  FMul(diff, diff)
               sumSq == Sum([i \in 1..X.r |-> sq(i)])
           IN  FSqrt(FDiv(sumSq, F(X.r - 1)))]

\* colStdDev: the population standard deviation of each column
colStdDev(X) ==
    LET colMeans == colMean(X)
    IN  [j \in 1..X.c |->
           LET sq(i) == LET diff == FSub(At(X, i, j), colMeans[j])
                        IN  FMul(diff, diff)
               sumSq == Sum([i \in 1..X.r |-> sq(i)])
           IN  FSqrt(FDiv(sumSq, F(X.r)))]

\* ScaleByStdDev with a guard: a zero standard deviation is replaced by 1.0
ScaleByStdDevGuarded(h, x) ==
    LET X       == h[x]
        colStd  == [j \in 1..X.c |->
                      LET sd == colStdDev(X)[j]
                      IN  IF sd = Zero THEN F(1) ELSE sd]
        zeros   == Alloc(h, NewDense(X.r, X.c))
        scaledX == [zeros.heap[zeros.ref] EXCEPT
                      !.d = [i \in 1..X.r |-> [j \in 1..X.c |->
                               FDiv(At(X, i, j), colStd[j])]]]
    IN  [heap     |-> [zeros.heap EXCEPT ![zeros.ref] = scaledX],
         ref      |-> zeros.ref,
         colMeans |-> <<>>,
         colStd   |-> colStd]

\* ScaleByStdDev: a new matrix holding X with each column divided by its
\* standard deviation, and the standard deviations
ScaleByStdDev(h, x) ==
    LET X       == h[x]
        colStd  == colStdDev(X)
        zeros   == Alloc(h, NewDense(X.r, X.c))
        scaledX == [zeros.heap[zeros.ref] EXCEPT
                      !.d = [i \in 1..X.r |-> [j \in 1..X.c |->
                               FDiv(At(X, i, j), colStd[j])]]]
    IN  [heap     |-> [zeros.heap EXCEPT ![zeros.ref] = scaledX],
         ref      |-> zeros.ref,
         colMeans |-> <<>>,
         colStd   |-> colStd]

\* Autoscale: MeanCenter, then ScaleByStdDev of the centered matrix
Autoscale(h, x) ==
    LET mc == MeanCenter(h, x)
        sc == ScaleByStdDev(mc.heap, mc.ref)
    IN  [heap     |-> sc.heap,
         ref      |-> sc.ref,
         colMeans |-> mc.colMeans,
         colStd   |-> sc.colStd]

\* the values an input cell of a preprocessing call is drawn from
PreVals == {F(0), F(11)}

PreInputs ==
    UNION {Matrices(r, c, PreVals) : r \in 1..MaxRows, c \in 1..MaxCols}

\* pre.X is the caller's matrix, pre.X0 the value it held at the call
PreInit ==
    /\ isv = Idle /\ s2d = Idle /\ pca = Idle
    /\ stk = Idle
    /\ pls = Idle
    /\ utl = Idle /\ csv = Idle /\ cli = Idle /\ vpc = Idle
    /\ \E M \in PreInputs :
        pre = [pc |-> "call", fn |-> "none", heap |-> <<M>>, X |-> 1, X0 |-> M,
               out |-> 0, colMeans |-> <<>>, colStd |-> <<>>]

PreReturn(fn, res) ==
    /\ UNCHANGED <<stk, pls, pca, utl, csv, cli, vpc, isv, s2d>>
    /\ pre' = [pre EXCEPT !.pc = "done", !.fn = fn, !.heap = res.heap,
                       !.out = res.ref, !.colMeans = res.colMeans,
                       !.colStd = res.colStd]

CallMeanCenter ==
    /\ pre.pc = "call"
    /\ PreReturn("MeanCenter", MeanCenter(pre.heap, pre.X))

CallScaleByStdDev ==
    /\ pre.pc = "call"
    /\ PreReturn("ScaleByStdDev", ScaleByStdDev(pre.heap, pre.X))

CallAutoscale ==
    /\ pre.pc = "call"
    /\ PreReturn("Autoscale", Autoscale(pre.heap, pre.X))

PreNext == CallMeanCenter \/ CallScaleByStdDev \/ CallAutoscale

SpecPre == PreInit /\ [][PreNext]_vars

\* ------------------------------------------------------ StackDenseMatrices
RECURSIVE StackRows(_, _)
\* the rows of the listed matrices, in list order
StackRows(h, matrices) ==
    IF matrices = <<>> THEN <<>>
    ELSE h[Head(matrices)].d \o StackRows(h, Tail(matrices))

\* StackDenseMatrices comparing every matrix with its predecessor's row
\* count instead of the first matrix's column count
StackDenseMatricesRowCheck(h, matrices) ==
    IF Len(matrices) = 0
    THEN [heap |-> h, ref |-> Nil, err |-> "no matrices to stack"]
    ELSE LET cols == h[matrices[1]].c
         IN  IF \E k \in 1..Len(matrices) : h[matrices[k]].r # h[matrices[1]].r
             THEN [heap |-> h, ref |-> Nil,
                   err |-> "matrices have different number of columns"]
             ELSE LET rows    == StackRows(h, matrices)
                      stacked == Alloc(h, NewDense(Len(rows), cols))
                  IN  [heap |-> [stacked.heap EXCEPT ![stacked.ref].d = rows],
                       ref  |-> stacked.ref,
                       err  |-> "nil"]

\* StackDenseMatrices: the listed matrices stacked vertically into a new
\* matrix, or an error
StackDenseMatrices(h, matrices) ==
    IF Len(matrices) = 0
    THEN [heap |-> h, ref |-> Nil, err |-> "no matrices to stack"]
    ELSE LET cols == h[matrices[1]].c
         IN  IF \E k \in 1..Len(matrices) : h[matrices[k]].c # cols
             THEN [heap |-> h, ref |-> Nil,
                   err |-> "matrices have different number of columns"]
             ELSE LET rows    == StackRows(h, matrices)
                      stacked == Alloc(h, NewDense(Len(rows), cols))
                  IN  [heap |-> [stacked.heap EXCEPT ![stacked.ref].d = rows],
                       ref  |-> stacked.ref,
                       err  |-> "nil"]

\* an r x c matrix whose entries are all different and tell the place k of
\* the matrix in its list
Labelled(k, r, c) ==
    [r |-> r, c |-> c,
     d |-> [i \in 1..r |-> [j \in 1..c |->
              [k |-> "num", m |-> 2 * k + 1, e |-> (MaxCols + 2) * i + j]]]]

StkShapes == (1..MaxRows) \X (1..MaxCols)

StkInit ==
    /\ pca = Idle
    /\ isv = Idle /\ s2d = Idle /\ pre = Idle
    /\ pls = Idle
    /\ utl = Idle /\ csv = Idle /\ cli = Idle /\ vpc = Idle
    /\ \E n \in 0..MaxList :
       \E shapes \in [1..n -> StkShapes] :
          LET h == [k \in 1..n |-> Labelled(k, shapes[k][1], shapes[k][2])]
          IN  stk = [pc |-> "call", heap |-> h, heap0 |-> h,
                     matrices |-> [k \in 1..n |-> k], ref |-> Nil, err |-> "nil"]

CallStackDenseMatrices ==
    /\ stk.pc = "call"
    /\ LET res == StackDenseMatrices(stk.heap, stk.matrices)
       IN  stk' = [stk EXCEPT !.pc = "done", !.heap = res.heap,
                              !.ref = res.ref, !.err = res.err]
    /\ UNCHANGED <<pre, pls, pca, utl, csv, cli, vpc, isv, s2d>>

StkNext == CallStackDenseMatrices

SpecStack == StkInit /\ [][StkNext]_vars

\* --------------------------------------------------------------- NIPALS PLS
\* the values rand.Float64() is taken to produce
RandVals == {Exact(1, -2), Exact(3, -2)}

\* normalize without the test for a norm of zero
normalizeUnguarded(h, x) ==
    LET norm == Norm2(RawData(h[x]))
    IN  [h EXCEPT ![x] = MatScale(FDiv(F(1), norm), h[x])]

\* normalize: x scaled in place to unit length, unless its norm is zero
normalize(h, x) ==
    LET norm == Norm2(RawData(h[x]))
    IN  IF ~FEq(norm, Zero)
        THEN [h EXCEPT ![x] = MatScale(FDiv(F(1), norm), h[x])]
        ELSE h

\* normDiff: the Euclidean norm of a - b, +Inf when either is nil
normDiff(h, a, b) ==
    IF a = Nil \/ b = Nil THEN PosInf
    ELSE Norm2(RawData(MatSub(h[a], h[b])))

\* deflate: X <- X - t * p^T, in place
deflate(h, X, t, p) ==
    [h EXCEPT ![X] = MatSub(h[X], MatMul(h[t], Transpose(h[p])))]

\* the data of a PLS fit: cell (i, j) of the s-th data set
DataCell(s, i, j) == F(1 + ((s + i + 2 * j) % 4))

PlsData(s, r, c) ==
    [r |-> r, c |-> c, d |-> [i \in 1..r |-> [j \in 1..c |-> DataCell(s, i, j)]]]

\* the tolerances of a PLS fit
PlsTols == {Zero, Exact(1, -4)}

PlsInit ==
    /\ pca = Idle
    /\ isv = Idle /\ s2d = Idle /\ pre = Idle
    /\ stk = Idle
    /\ utl = Idle /\ csv = Idle /\ cli = Idle /\ vpc = Idle
    /\ \E R \in 1..PlsRows, Cx \in 1..MaxCols, Cy \in 1..MaxCols,
          ncomp \in 0..MaxComp, maxIter \in 0..MaxIter, tol \in PlsTols :
          LET X == PlsData(0, R, Cx)
              Y == PlsData(1, R, Cy)
          IN  pls = [pc |-> "call", heap |-> <<X, Y>>, X |-> 1, Y |-> 2,
                     X0 |-> X, Y0 |-> Y,
                     ncomp |-> ncomp, maxIter |-> maxIter, tol |-> tol,
                     T |-> Nil, P |-> <<>>, Q |-> <<>>, W |-> <<>>,
                     c |-> 0, iteration |-> 0,
                     t |-> Nil, p |-> Nil, q |-> Nil, u |-> Nil, w |-> Nil,
                     tOld |-> Nil, uInit |-> Nil,
                     written |-> {}, panic |-> "none",
                     model |-> [T |-> Nil, P |-> Nil, Q |-> Nil, W |-> Nil],
                     err |-> "nil", YPred |-> Nil]

\* NipalsPLS, lines 25-29: the accumulators and the scores matrix; gonum's
\* mat.NewDense panics when a dimension is zero
NipalsPLS_Enter ==
    /\ pls.pc = "call"
    /\ IF pls.ncomp = 0
       THEN pls' = [pls EXCEPT !.pc = "panic",
                               !.panic = "NewDense: zero length in matrix dimension"]
       ELSE LET T == Alloc(pls.heap, NewDense(pls.heap[pls.X].r, pls.ncomp))
            IN  pls' = [pls EXCEPT !.pc = "loop", !.heap = T.heap, !.T = T.ref,
                                   !.P = <<>>, !.Q = <<>>, !.W = <<>>, !.c = 0]
    /\ UNCHANGED <<pre, stk, pca, utl, csv, cli, vpc, isv, s2d>>

\* NipalsPLS, lines 31-38: the start of component c
NipalsPLS_Component ==
    /\ pls.pc = "loop"
    /\ pls.c < pls.ncomp
    /\ LET rowsX == pls.heap[pls.X].r
           colsX == pls.heap[pls.X].c
           colsY == pls.heap[pls.Y].c
       IN  \E scores \in [1..pls.heap[pls.Y].r -> RandVals] :
              LET u0 == Alloc(pls.heap,
                              [r |-> Len(scores), c |-> 1,
                               d |-> [i \in 1..Len(scores) |-> <<scores[i]>>]])
                  t  == Alloc(u0.heap, NewDense(rowsX, 1))
                  p  == Alloc(t.heap, NewDense(colsX, 1))
                  q  == Alloc(p.heap, NewDense(colsY, 1))
                  u  == Alloc(q.heap, NewDense(rowsX, 1))
              IN  pls' = [pls EXCEPT !.pc = "inner", !.heap = u.heap,
                                     !.uInit = u0.ref, !.t = t.ref, !.p = p.ref,
                                     !.q = q.ref, !.u = u.ref, !.w = Nil,
                                     !.tOld = Nil, !.iteration = 0]
    /\ UNCHANGED <<pre, stk, pca, utl, csv, cli, vpc, isv, s2d>>

\* NipalsPLS, lines 39-66: one pass of the inner loop
NipalsPLS_Iterate ==
    /\ pls.pc = "inner"
    /\ pls.iteration < pls.maxIter
    /\ LET X  == pls.heap[pls.X]
           Y  == pls.heap[pls.Y]
           wa == Alloc(pls.heap, NewDense(X.c, 1))
           w  == wa.ref
           h1 == [wa.heap EXCEPT ![w] = MatMul(Transpose(X), wa.heap[pls.u])]
           h2 == normalize(h1, w)
           h3 == [h2 EXCEPT ![pls.t] = MatMul(X, h2[w])]
           h4 == normalize(h3, pls.t)
           h5 == [h4 EXCEPT ![pls.p] = MatMul(Transpose(X), h4[pls.t])]
           h6 == [h5 EXCEPT ![pls.q] = MatMul(Transpose(Y), h5[pls.u])]
           h7 == [h6 EXCEPT ![pls.u] = MatMul(Y, h6[pls.q])]
       IN  IF pls.iteration > 0 /\ FLt(normDiff(h4, pls.t, pls.tOld), pls.tol)
           THEN pls' = [pls EXCEPT !.pc = "endcomp", !.heap = h4, !.w = w,
                                   !.written = @ \cup {w, pls.t}]
           ELSE pls' = [pls EXCEPT !.heap = h7, !.w = w, !.tOld = pls.t,
                                   !.P = Append(@, pls.p),
                                   !.Q = Append(@, pls.q),
                                   !.W = Append(@, w),
                                   !.iteration = @ + 1,
                                   !.written = @ \cup {w, pls.t, pls.p, pls.q, pls.u}]
    /\ UNCHANGED <<pre, stk, pca, utl, csv, cli, vpc, isv, s2d>>

\* NipalsPLS, line 39: the inner loop ends at the iteration cap
NipalsPLS_IterationCap ==
    /\ pls.pc = "inner"
    /\ pls.iteration >= pls.maxIter
    /\ pls' = [pls EXCEPT !.pc = "endcomp"]
    /\ UNCHANGED <<pre, stk, pca, utl, csv, cli, vpc, isv, s2d>>

\* NipalsPLS, lines 68-71: the score column is stored, X and Y are deflated
NipalsPLS_Deflate ==
    /\ pls.pc = "endcomp"
    /\ LET h1 == [pls.heap EXCEPT ![pls.T] =
                     SetCol(@, pls.c + 1, RawData(pls.heap[pls.t]))]
           h2 == deflate(h1, pls.X, pls.t, pls.p)
           h3 == deflate(h2, pls.Y, pls.t, pls.q)
       IN  pls' = [pls EXCEPT !.pc = "loop", !.heap = h3, !.c = @ + 1,
                              !.written = @ \cup {pls.T, pls.X, pls.Y}]
    /\ UNCHANGED <<pre, stk, pca, utl, csv, cli, vpc, isv, s2d>>

\* NipalsPLS, lines 78-96: the accumulators are stacked, the model returned
NipalsPLS_Return ==
    /\ pls.pc = "loop"
    /\ pls.c >= pls.ncomp
    /\ LET Pmat == StackDenseMatrices(pls.heap, pls.P)
           Qmat == StackDenseMatrices(Pmat.heap, pls.Q)
           Wmat == StackDenseMatrices(Qmat.heap, pls.W)
       IN  IF Pmat.err # "nil"
           THEN pls' = [pls EXCEPT !.pc = "done", !.err = Pmat.err]
           ELSE IF Qmat.err # "nil"
           THEN pls' = [pls EXCEPT !.pc = "done", !.err = Qmat.err,
                                   !.heap = Pmat.heap]
           ELSE IF Wmat.err # "nil"
           THEN pls' = [pls EXCEPT !.pc = "done", !.err = Wmat.err,
                                   !.heap = Qmat.heap]
           ELSE pls' = [pls EXCEPT !.pc = "done", !.heap = Wmat.heap,
                                   !.model = [T |-> pls.T, P |-> Pmat.ref,
                                              Q |-> Qmat.ref, W |-> Wmat.ref]]
    /\ UNCHANGED <<pre, stk, pca, utl, csv, cli, vpc, isv, s2d>>

\* PlsPredict(XNew, plsModel): Nil when a gonum Mul panics on the shapes
PlsPredict(h, XNew, plsModel) ==
    LET W    == h[plsModel.W]
        Q    == h[plsModel.Q]
        TNew == Alloc(h, NewDense(h[XNew].r, W.c))
    IN  IF h[XNew].c # W.r
        THEN [heap |-> TNew.heap, ref |-> Nil,
              panic |-> "TNew.Mul(XNew, W): dimension mismatch"]
        ELSE LET h1    == [TNew.heap EXCEPT ![TNew.ref] = MatMul(h[XNew], W)]
                 YPred == Alloc(h1, NewDense(h[XNew].r, Q.c))
             IN  IF W.c # Q.c \/ Q.r # Q.c
                 THEN [heap |-> YPred.heap, ref |-> Nil,
                       panic |-> "YPred.Mul(TNew, Q.T()): dimension mismatch"]
                 ELSE [heap  |-> [YPred.heap EXCEPT ![YPred.ref] =
                                     MatMul(h1[TNew.ref], Transpose(Q))],
                       ref   |-> YPred.ref,
                       panic |-> "none"]

\* TestNipalsPLS, line 38: the prediction on the training matrix X
CallPlsPredict ==
    /\ pls.pc = "done"
    /\ pls.err = "nil"
    /\ LET res == PlsPredict(pls.heap, pls.X, pls.model)
       IN  pls' = [pls EXCEPT !.pc = IF res.ref = Nil THEN "panic" ELSE "predicted",
                              !.heap = res.heap, !.YPred = res.ref,
                              !.panic = res.panic]
    /\ UNCHANGED <<pre, stk, pca, utl, csv, cli, vpc, isv, s2d>>

PlsNext ==
    \/ NipalsPLS_Enter
    \/ NipalsPLS_Component
    \/ NipalsPLS_Iterate
    \/ NipalsPLS_IterationCap
    \/ NipalsPLS_Deflate
    \/ NipalsPLS_Return
    \/ CallPlsPredict

SpecPLS == PlsInit /\ [][PlsNext]_vars

\* --------------------------------------------------------------- NIPALS PCA
\* the convergence tolerance and the iteration cap of NIPALS
epsilon == FDiv(F(1), F(1000000))

maxIterations == 500

\* the zero value of mat.Dense: an empty matrix
EmptyDense == [r |-> 0, c |-> 0, d |-> <<>>]

\* the residual sharing the caller's matrix instead of copying it
DenseAliasOf(h, x) == [heap |-> h, ref |-> x]

\* mat.DenseCopyOf(X): a new matrix holding a copy of X
DenseCopyOf(h, x) == Alloc(h, h[x])

\* initialScoreVector: the column of X with the highest variance, as a new
\* rows x 1 matrix; column 0 (here 1) when no variance exceeds 0
RECURSIVE HighestVarianceFrom(_, _, _, _)
HighestVarianceFrom(X, j, maxVariance, columnIndex) ==
    IF j > X.c THEN columnIndex
    ELSE LET rows     == F(X.r)
             mean     == FDiv(Sum(Col(X, j)), rows)
             sumSq    == Sum([i \in 1..X.r |-> FMul(At(X, i, j), At(X, i, j))])
             variance == FSub(FDiv(sumSq, rows), FMul(mean, mean))
         IN  IF FLt(maxVariance, variance)
             THEN HighestVarianceFrom(X, j + 1, variance, j)
             ELSE HighestVarianceFrom(X, j + 1, maxVariance, columnIndex)

initialScoreVector(X) ==
    LET columnIndex == HighestVarianceFrom(X, 1, Zero, 1)
    IN  [r |-> X.r, c |-> 1, d |-> [i \in 1..X.r |-> <<At(X, i, columnIndex)>>]]

\* the values a cell of the matrix of a PCA fit is drawn from
PcaVals == {F(-1), F(2)}

\* the r x c matrix with every cell equal to v
Uniform(r, c, v) == [r |-> r, c |-> c, d |-> [i \in 1..r |-> [j \in 1..c |-> v]]]

\* the matrices of a PCA fit: the matrices over PcaVals, the zero matrices
\* and the matrices of NaN (what Autoscale returns for all-constant data)
PcaInputs ==
    UNION {Matrices(r, c, PcaVals) \cup {Uniform(r, c, Zero), Uniform(r, c, NaN)} :
             r \in 1..PcaRows, c \in 1..MaxCols}

PcaInit ==
    /\ isv = Idle /\ s2d = Idle /\ pre = Idle
    /\ stk = Idle
    /\ pls = Idle
    /\ utl = Idle /\ csv = Idle /\ cli = Idle /\ vpc = Idle
    /\ \E X \in PcaInputs, numComponents \in 0..MaxComp :
          pca = [pc |-> "call", heap |-> <<X>>, X |-> 1, X0 |-> X,
                 numComponents |-> numComponents,
                 T |-> Nil, P |-> Nil, XRes |-> Nil, Eigenvalues |-> <<>>,
                 t |-> EmptyDense, p |-> EmptyDense, tNew |-> EmptyDense,
                 outerProduct |-> EmptyDense, sub |-> EmptyDense,
                 i |-> 0, j |-> 0, stored |-> <<>>,
                 written |-> {}, panic |-> "none", err |-> "unset"]

\* NIPALS, lines 56-66: the result matrices and the residual copy of X;
\* gonum's mat.NewDense panics when a dimension is zero
NIPALS_Enter ==
    /\ pca.pc = "call"
    /\ IF pca.numComponents = 0
       THEN pca' = [pca EXCEPT !.pc = "panic",
                               !.panic = "NewDense: zero length in matrix dimension"]
       ELSE LET X    == pca.heap[pca.X]
                T    == Alloc(pca.heap, NewDense(X.r, pca.numComponents))
                P    == Alloc(T.heap, NewDense(X.c, pca.numComponents))
                XRes == DenseCopyOf(P.heap, pca.X)
            IN  pca' = [pca EXCEPT !.pc = "loop", !.heap = XRes.heap,
                                   !.T = T.ref, !.P = P.ref, !.XRes = XRes.ref,
                                   !.Eigenvalues = [n \in 1..pca.numComponents |-> Zero],
                                   !.i = 0]
    /\ UNCHANGED <<pre, stk, pls, utl, csv, cli, vpc, isv, s2d>>

\* NIPALS, lines 68-71: component i starts from the highest-variance column
NIPALS_Component ==
    /\ pca.pc = "loop"
    /\ pca.i < pca.numComponents
    /\ pca' = [pca EXCEPT !.pc = "inner", !.j = 0,
                          !.t = initialScoreVector(pca.heap[pca.XRes])]
    /\ UNCHANGED <<pre, stk, pls, utl, csv, cli, vpc, isv, s2d>>

\* the inner loop replacing t by tNew before the convergence test
NIPALS_IterateReplaceFirst ==
    /\ pca.pc = "inner"
    /\ pca.j < maxIterations
    /\ LET XRes  == pca.heap[pca.XRes]
           p     == MatMul(Transpose(XRes), pca.t)
           pNorm == Norm2(RawData(p))
           pUnit == MatScale(FDiv(F(1), pNorm), p)
           tNew  == MatMul(XRes, pUnit)
       IN  IF FEq(pNorm, Zero)
           THEN pca' = [pca EXCEPT !.pc = "store", !.p = p]
           ELSE IF FLt(FSub(Norm2(RawData(tNew)), Norm2(RawData(pca.t))), epsilon)
           THEN pca' = [pca EXCEPT !.pc = "store", !.p = pUnit, !.tNew = tNew,
                                   !.t = tNew]
           ELSE pca' = [pca EXCEPT !.p = pUnit, !.tNew = tNew, !.t = tNew,
                                   !.j = @ + 1]
    /\ UNCHANGED <<pre, stk, pls, utl, csv, cli, vpc, isv, s2d>>

\* the inner loop without the test for a loading of norm zero
NIPALS_IterateNoZeroTest ==
    /\ pca.pc = "inner"
    /\ pca.j < maxIterations
    /\ LET XRes  == pca.heap[pca.XRes]
           p     == MatMul(Transpose(XRes), pca.t)
           pNorm == Norm2(RawData(p))
           pUnit == MatScale(FDiv(F(1), pNorm), p)
           tNew  == MatMul(XRes, pUnit)
       IN  IF FLt(FSub(Norm2(RawData(tNew)), Norm2(RawData(pca.t))), epsilon)
           THEN pca' = [pca EXCEPT !.pc = "store", !.p = pUnit, !.tNew = tNew]
           ELSE pca' = [pca EXCEPT !.p = pUnit, !.tNew = tNew, !.t = tNew,
                                   !.j = @ + 1]
    /\ UNCHANGED <<pre, stk, pls, utl, csv, cli, vpc, isv, s2d>>

\* NIPALS, lines 75-94: one pass of the inner loop
NIPALS_Iterate ==
    /\ pca.pc = "inner"
    /\ pca.j < maxIterations
    /\ LET XRes  == pca.heap[pca.XRes]
           p     == MatMul(Transpose(XRes), pca.t)
           pNorm == Norm2(RawData(p))
           pUnit == MatScale(FDiv(F(1), pNorm), p)
           tNew  == MatMul(XRes, pUnit)
       IN  IF FEq(pNorm, Zero)
           THEN pca' = [pca EXCEPT !.pc = "store", !.p = p]
           ELSE IF FLt(FSub(Norm2(RawData(tNew)), Norm2(RawData(pca.t))), epsilon)
           THEN pca' = [pca EXCEPT !.pc = "store", !.p = pUnit, !.tNew = tNew]
           ELSE pca' = [pca EXCEPT !.p = pUnit, !.tNew = tNew, !.t = tNew,
                                   !.j = @ + 1]
    /\ UNCHANGED <<pre, stk, pls, utl, csv, cli, vpc, isv, s2d>>

\* the iteration cap reported to the caller as an error
NIPALS_IterationCapReported ==
    /\ pca.pc = "inner"
    /\ pca.j >= maxIterations
    /\ pca' = [pca EXCEPT !.pc = "done", !.err = "not converged"]
    /\ UNCHANGED <<pre, stk, pls, utl, csv, cli, vpc, isv, s2d>>

\* NIPALS, line 75: the inner loop ends at the iteration cap
NIPALS_IterationCap ==
    /\ pca.pc = "inner"
    /\ pca.j >= maxIterations
    /\ pca' = [pca EXCEPT !.pc = "store"]
    /\ UNCHANGED <<pre, stk, pls, utl, csv, cli, vpc, isv, s2d>>

\* the storing step writing every component into the first column
NIPALS_StoreFirstColumn ==
    /\ pca.pc = "store"
    /\ LET col          == 1
           h1           == [pca.heap EXCEPT ![pca.T] = SetCol(@, col, RawData(pca.t))]
           h2           == [h1 EXCEPT ![pca.P] = SetCol(@, col, RawData(pca.p))]
           outerProduct == MatMul(pca.t, Transpose(pca.p))
           sub          == MatSub(h2[pca.XRes], outerProduct)
           h3           == [h2 EXCEPT ![pca.XRes] = sub]
           tNorm        == Norm2(Col(h3[pca.T], col))
       IN  pca' = [pca EXCEPT !.pc = "loop", !.heap = h3,
                              !.outerProduct = outerProduct, !.sub = sub,
                              !.Eigenvalues[col] = FMul(tNorm, tNorm),
                              !.stored = Append(@, [t |-> pca.t, p |-> pca.p]),
                              !.written = @ \cup {pca.T, pca.P, pca.XRes},
                              !.i = @ + 1]
    /\ UNCHANGED <<pre, stk, pls, utl, csv, cli, vpc, isv, s2d>>

\* the storing step with the deflation applied twice
NIPALS_StoreDeflatesTwice ==
    /\ pca.pc = "store"
    /\ LET col          == pca.i + 1
           h1           == [pca.heap EXCEPT ![pca.T] = SetCol(@, col, RawData(pca.t))]
           h2           == [h1 EXCEPT ![pca.P] = SetCol(@, col, RawData(pca.p))]
           outerProduct == MatMul(pca.t, Transpose(pca.p))
           sub          == MatSub(MatSub(h2[pca.XRes], outerProduct), outerProduct)
           h3           == [h2 EXCEPT ![pca.XRes] = sub]
           tNorm        == Norm2(Col(h3[pca.T], col))
       IN  pca' = [pca EXCEPT !.pc = "loop", !.heap = h3,
                              !.outerProduct = outerProduct, !.sub = sub,
                              !.Eigenvalues[col] = FMul(tNorm, tNorm),
                              !.stored = Append(@, [t |-> pca.t, p |-> pca.p]),
                              !.written = @ \cup {pca.T, pca.P, pca.XRes},
                              !.i = @ + 1]
    /\ UNCHANGED <<pre, stk, pls, utl, csv, cli, vpc, isv, s2d>>

\* the storing step taking the norm of the score column as the eigenvalue
NIPALS_StoreNorm ==
    /\ pca.pc = "store"
    /\ LET col          == pca.i + 1
           h1           == [pca.heap EXCEPT ![pca.T] = SetCol(@, col, RawData(pca.t))]
           h2           == [h1 EXCEPT ![pca.P] = SetCol(@, col, RawData(pca.p))]
           outerProduct == MatMul(pca.t, Transpose(pca.p))
           sub          == MatSub(h2[pca.XRes], outerProduct)
           h3           == [h2 EXCEPT ![pca.XRes] = sub]
           tNorm        == Norm2(Col(h3[pca.T], col))
       IN  pca' = [pca EXCEPT !.pc = "loop", !.heap = h3,
                              !.outerProduct = outerProduct, !.sub = sub,
                              !.Eigenvalues[col] = tNorm,
                              !.stored = Append(@, [t |-> pca.t, p |-> pca.p]),
                              !.written = @ \cup {pca.T, pca.P, pca.XRes},
                              !.i = @ + 1]
    /\ UNCHANGED <<pre, stk, pls, utl, csv, cli, vpc, isv, s2d>>

\* NIPALS, lines 96-108: t and p are stored as column i, the residual is
\* deflated and the eigenvalue computed from the stored score column
NIPALS_Store ==
    /\ pca.pc = "store"
    /\ LET col          == pca.i + 1
           h1           == [pca.heap EXCEPT ![pca.T] = SetCol(@, col, RawData(pca.t))]
           h2           == [h1 EXCEPT ![pca.P] = SetCol(@, col, RawData(pca.p))]
           outerProduct == MatMul(pca.t, Transpose(pca.p))
           sub          == MatSub(h2[pca.XRes], outerProduct)
           h3           == [h2 EXCEPT ![pca.XRes] = sub]
           tNorm        == Norm2(Col(h3[pca.T], col))
       IN  pca' = [pca EXCEPT !.pc = "loop", !.heap = h3,
                              !.outerProduct = outerProduct, !.sub = sub,
                              !.Eigenvalues[col] = FMul(tNorm, tNorm),
                              !.stored = Append(@, [t |-> pca.t, p |-> pca.p]),
                              !.written = @ \cup {pca.T, pca.P, pca.XRes},
                              !.i = @ + 1]
    /\ UNCHANGED <<pre, stk, pls, utl, csv, cli, vpc, isv, s2d>>

\* NIPALS, line 111: T, P, the eigenvalues and a nil error are returned
NIPALS_Return ==
    /\ pca.pc = "loop"
    /\ pca.i >= pca.numComponents
    /\ pca' = [pca EXCEPT !.pc = "done", !.err = "nil"]
    /\ UNCHANGED <<pre, stk, pls, utl, csv, cli, vpc, isv, s2d>>

PcaNext ==
    \/ NIPALS_Enter
    \/ NIPALS_Component
    \/ NIPALS_Iterate
    \/ NIPALS_IterationCap
    \/ NIPALS_Store
    \/ NIPALS_Return

SpecPCA == PcaInit /\ [][PcaNext]_vars

\* ----------------------------------------------------- claims: preprocessing
\* |a| <= k * 2^sh * |b| for finite a and b, compared exactly
AbsLeqScaled(a, k, sh, b) ==
    ~NumLt(Exact(k * Abs(b.m), b.e + sh), FAbs(a))

\* the mean of a sequence of values: their sum divided by their number
MeanOf(s) == FDiv(Sum(s), F(Len(s)))

\* the population standard deviation of a sequence: divisor Len(s)
StdOf(s) ==
    LET mu == MeanOf(s)
        d2 == [i \in 1..Len(s) |-> FMul(FSub(s[i], mu), FSub(s[i], mu))]
    IN  FSqrt(FDiv(Sum(d2), F(Len(s))))

\* the largest magnitude among the values of a non-empty sequence
RECURSIVE MaxAbs(_)
MaxAbs(s) ==
    IF Len(s) = 1 THEN FAbs(s[1])
    ELSE LET rest == MaxAbs(Tail(s))
         IN  IF NumLt(rest, FAbs(s[1])) THEN FAbs(s[1]) ELSE rest

IsConstant(s) == \A i \in 1..Len(s) : s[i] = s[1]

PreDone(fn) == pre.pc = "done" /\ pre.fn = fn

PreOut == pre.heap[pre.out]

\* what MeanCenter returns apart from the column means of its result: a new
\* R x C matrix with entry (i, j) = X(i, j) - mean of column j of X, the
\* vector of those means, and X left as it was
MeanCenterResult ==
    /\ pre.out # pre.X
    /\ pre.heap[pre.X] = pre.X0
    /\ PreOut.r = pre.X0.r /\ PreOut.c = pre.X0.c
    /\ Len(pre.colMeans) = pre.X0.c
    /\ \A j \in 1..pre.X0.c :
          /\ pre.colMeans[j] = MeanOf(Col(pre.X0, j))
          /\ \A i \in 1..pre.X0.r :
                At(PreOut, i, j) = FSub(At(pre.X0, i, j), MeanOf(Col(pre.X0, j)))

\* C8 as stated: MeanCenter returns a new matrix with the column means of X
\* subtracted, the means, X unchanged, and every column mean of the returned
\* matrix is exactly zero
C8_Original ==
    PreDone("MeanCenter") =>
        /\ MeanCenterResult
        /\ \A j \in 1..pre.X0.c : MeanOf(Col(PreOut, j)) = Zero

\* C8 amended: as above, but the column means of the returned matrix are zero
\* only up to rounding: at most 4 * R * 2^-Prec times the largest magnitude
\* in that column of X
C8_MeanCenter ==
    PreDone("MeanCenter") =>
        /\ MeanCenterResult
        /\ \A j \in 1..pre.X0.c :
              AbsLeqScaled(MeanOf(Col(PreOut, j)), 4 * pre.X0.r, -Prec,
                           MaxAbs(Col(pre.X0, j)))

\* a MeanCenter call on a matrix of at least two rows whose result has a
\* column with a nonzero computed mean
C8_Witness ==
    /\ PreDone("MeanCenter")
    /\ pre.X0.r >= 2
    /\ \E j \in 1..pre.X0.c : MeanOf(Col(PreOut, j)) # Zero

\* C9: Autoscale(X) is ScaleByStdDev of MeanCenter(X): entry (i, j) is
\* (X(i, j) - mean_j) / std_j with mean_j the mean of column j of X and std_j
\* the population standard deviation (divisor R) of column j of the centered
\* matrix; the means returned are those of X, the standard deviations those
\* of the centered matrix; X is left as it was
C9_Autoscale ==
    PreDone("Autoscale") =>
        LET R == pre.X0.r
            centeredCol(j) ==
                [i \in 1..R |-> FSub(At(pre.X0, i, j), MeanOf(Col(pre.X0, j)))]
        IN  /\ pre.heap[pre.X] = pre.X0
            /\ PreOut.r = R /\ PreOut.c = pre.X0.c
            /\ Len(pre.colMeans) = pre.X0.c /\ Len(pre.colStd) = pre.X0.c
            /\ \A j \in 1..pre.X0.c :
                  /\ pre.colMeans[j] = MeanOf(Col(pre.X0, j))
                  /\ pre.colStd[j] = StdOf(centeredCol(j))
                  /\ \A i \in 1..R :
                        At(PreOut, i, j) =
                            FDiv(centeredCol(j)[i], StdOf(centeredCol(j)))

\* an Autoscale call on a matrix with a column that is not constant, whose
\* standard deviation is neither 0 nor 1
C9_Witness ==
    /\ PreDone("Autoscale")
    /\ pre.X0.r >= 2
    /\ \E j \in 1..pre.X0.c :
          /\ ~IsConstant(Col(pre.X0, j))
          /\ pre.colStd[j] # Zero /\ pre.colStd[j] # F(1)
          /\ \E i \in 1..pre.X0.r : IsNum(At(PreOut, i, j)) /\ At(PreOut, i, j) # Zero

\* the column j of the result is the input column divided by zero: no entry
\* is finite, and the standard deviation returned is 0, not 1
DividedByZero(In, j) ==
    /\ pre.colStd[j] = Zero
    /\ \A i \in 1..In.r :
          /\ At(PreOut, i, j) = FDiv(At(In, i, j), Zero)
          /\ ~IsNum(At(PreOut, i, j))

\* the matrix that the scaling step of the call divides
ScaledInput ==
    IF pre.fn = "Autoscale"
    THEN [pre.X0 EXCEPT !.d = [i \in 1..pre.X0.r |-> [j \in 1..pre.X0.c |->
                                 FSub(At(pre.X0, i, j), MeanOf(Col(pre.X0, j)))]]]
    ELSE pre.X0

\* C10 as stated: for any input containing a constant column, ScaleByStdDev
\* and Autoscale divide that column's entries by zero and return normally
C10_Original ==
    (PreDone("ScaleByStdDev") \/ PreDone("Autoscale")) =>
        \A j \in 1..pre.X0.c :
            IsConstant(Col(pre.X0, j)) => DividedByZero(ScaledInput, j)

\* C10 amended: no guard for a zero standard deviation: every column whose
\* computed standard deviation is zero is divided by zero and the call
\* returns normally with that 0 (not 1.0) as the column's standard
\* deviation; the computed standard deviation is zero for every constant
\* column under Autoscale, and under ScaleByStdDev for every constant column
\* whose mean is computed exactly
C10_NoZeroGuard ==
    (PreDone("ScaleByStdDev") \/ PreDone("Autoscale")) =>
        \A j \in 1..pre.X0.c :
            /\ StdOf(Col(ScaledInput, j)) = Zero => DividedByZero(ScaledInput, j)
            /\ (pre.fn = "Autoscale" /\ IsConstant(Col(pre.X0, j)))
                  => DividedByZero(ScaledInput, j)
            /\ (/\ pre.fn = "ScaleByStdDev"
                /\ IsConstant(Col(pre.X0, j))
                /\ MeanOf(Col(pre.X0, j)) = At(pre.X0, 1, j))
                  => DividedByZero(ScaledInput, j)

\* a ScaleByStdDev call that returned a column of +Inf: a constant nonzero
\* column divided by its zero standard deviation
C10_Witness ==
    /\ PreDone("ScaleByStdDev")
    /\ \E j \in 1..pre.X0.c :
          /\ IsConstant(Col(pre.X0, j))
          /\ pre.colStd[j] = Zero
          /\ \A i \in 1..pre.X0.r : At(PreOut, i, j) = PosInf

\* ------------------------------------------------- claims: the PLS package
PlsModelReturned == pls.pc = "done" /\ pls.err = "nil"

\* C1 as stated: after a fit with ncomp >= 1, maxIter >= 1 and tol > 0 that
\* returned a model, PlsPredict(X, model) does not fail on the dimensions and
\* returns a matrix of R rows and Cy columns
C1_Claim ==
    (/\ pls.pc \in {"predicted", "panic"}
     /\ pls.model.W # Nil
     /\ pls.ncomp >= 1 /\ pls.maxIter >= 1 /\ FLt(Zero, pls.tol))
        => /\ pls.pc = "predicted"
           /\ pls.heap[pls.YPred].r = pls.X0.r
           /\ pls.heap[pls.YPred].c = pls.Y0.c

\* C2 as stated (its shapes): the model returned has T of shape R x ncomp,
\* W and P with Cx rows, Q with Cy rows, and one column per component in
\* each of W, P and Q
C2_Claim ==
    PlsModelReturned =>
        LET T == pls.heap[pls.model.T]
            P == pls.heap[pls.model.P]
            Q == pls.heap[pls.model.Q]
            W == pls.heap[pls.model.W]
        IN  /\ T.r = pls.X0.r /\ T.c = pls.ncomp
            /\ W.r = pls.X0.c /\ W.c = pls.ncomp
            /\ P.r = pls.X0.c /\ P.c = pls.ncomp
            /\ Q.r = pls.Y0.c /\ Q.c = pls.ncomp

\* C3 as stated: NipalsPLS returns a nil model and a non-nil error, without
\* aborting, whenever an accumulator is empty when it is stacked, in
\* particular when ncomp = 0 and when maxIter = 0 with ncomp >= 1
C3_Claim ==
    /\ (pls.pc = "done" /\ (pls.P = <<>> \/ pls.Q = <<>> \/ pls.W = <<>>))
          => (pls.err # "nil" /\ pls.model.W = Nil /\ pls.model.T = Nil)
    /\ (pls.pc \in {"done", "panic"} /\ (pls.ncomp = 0 \/ pls.maxIter = 0))
          => (/\ pls.pc = "done"
              /\ pls.err # "nil"
              /\ pls.model = [T |-> Nil, P |-> Nil, Q |-> Nil, W |-> Nil])

\* C6 as stated: NipalsPLS never writes to the caller's X and Y
C6_Claim ==
    pls.pc # "idle" => (pls.X \notin pls.written /\ pls.Y \notin pls.written)

\* the first row of the k-th matrix in the stacked result, counted from 0
RECURSIVE RowOffset(_, _)
RowOffset(h, k) == IF k = 1 THEN 0 ELSE RowOffset(h, k - 1) + h[k - 1].r

\* C7: StackDenseMatrices returns an error and a nil matrix for an empty
\* list and when a matrix has a column count other than the first one's;
\* otherwise a new matrix with the common column count, the sum of the row
\* counts, and the inputs' rows in list order; the inputs are left unchanged
C7_StackDenseMatrices ==
    stk.pc = "done" =>
        LET n  == Len(stk.matrices)
            h0 == stk.heap0
        IN  /\ \A k \in 1..n : stk.heap[stk.matrices[k]] = h0[k]
            /\ IF n = 0 \/ \E k \in 1..n : h0[k].c # h0[1].c
               THEN stk.err # "nil" /\ stk.ref = Nil
               ELSE /\ stk.err = "nil"
                    /\ stk.ref \notin {Nil} \cup {stk.matrices[k] : k \in 1..n}
                    /\ LET S == stk.heap[stk.ref]
                       IN  /\ S.c = h0[1].c
                           /\ S.r = RowOffset(h0, n) + h0[n].r
                           /\ Len(S.d) = S.r
                           /\ \A k \in 1..n : \A i \in 1..h0[k].r :
                                 S.d[RowOffset(h0, k) + i] = h0[k].d[i]

\* a successful stacking of at least two matrices with different row counts
C7_Witness ==
    /\ stk.pc = "done"
    /\ stk.err = "nil"
    /\ Len(stk.matrices) >= 2
    /\ stk.heap0[1].r # stk.heap0[2].r
    /\ stk.heap[stk.ref].r = stk.heap0[1].r + stk.heap0[2].r

\* ------------------------------------------------- claims: the PCA package
\* C4: for every X (R x C) and every numComponents >= 1, also above
\* min(R, C), NIPALS returns a nil error, T of shape R x numComponents, P of
\* shape C x numComponents and numComponents eigenvalues; column i of T and
\* of P and eigenvalue i are the score, the loading and the squared score
\* norm of the i-th extracted component
C4_NIPALS ==
    (pca.pc \in {"done", "panic"} /\ pca.numComponents >= 1) =>
        LET T == pca.heap[pca.T]
            P == pca.heap[pca.P]
            n == pca.numComponents
        IN  /\ pca.pc = "done"
            /\ pca.err = "nil"
            /\ T.r = pca.X0.r /\ T.c = n
            /\ P.r = pca.X0.c /\ P.c = n
            /\ Len(pca.Eigenvalues) = n
            /\ Len(pca.stored) = n
            /\ \A i \in 1..n :
                  /\ Col(T, i) = RawData(pca.stored[i].t)
                  /\ Col(P, i) = RawData(pca.stored[i].p)
                  /\ pca.Eigenvalues[i] =
                        FMul(Norm2(RawData(pca.stored[i].t)),
                             Norm2(RawData(pca.stored[i].t)))

\* a fit of a matrix without NaN that returned more components than
\* min(R, C), the first with a nonzero eigenvalue
C4_Witness ==
    /\ pca.pc = "done"
    /\ pca.numComponents > Min2(pca.X0.r, pca.X0.c)
    /\ IsNum(pca.Eigenvalues[1]) /\ pca.Eigenvalues[1] # Zero
    /\ pca.stored[1] # pca.stored[2]

\* C5: NIPALS never modifies the caller's X: the deflation goes to a copy
\* owned by the engine
C5_CallerMatrixUnchanged ==
    pca.pc # "idle" =>
        /\ pca.heap[pca.X] = pca.X0
        /\ pca.X \notin pca.written
        /\ pca.XRes # pca.X

\* a finished fit whose residual was deflated away from X
C5_Witness ==
    /\ pca.pc = "done"
    /\ pca.XRes \in pca.written
    /\ pca.heap[pca.XRes] # pca.X0
    /\ pca.heap[pca.X] = pca.X0

\* ------------------------------------------------------------- pkg/utils
\* the largest length asked of CreateFilledSlice
MaxFill == 3

\* a Go slice: nil, or a (possibly empty) sequence of elements
NilSlice == [nil |-> TRUE, elems |-> <<>>]

MakeSlice(elems) == [nil |-> FALSE, elems |-> elems]

\* CreateFilledSlice with the length test taken as length <= 0
CreateFilledSliceRejectsZero(length, value) ==
    IF length <= 0
    THEN [slice |-> NilSlice, err |-> "length cannot be negative"]
    ELSE [slice |-> MakeSlice([i \in 1..length |-> value]), err |-> "nil"]

\* CreateFilledSlice(length, value)
CreateFilledSlice(length, value) ==
    IF length < 0
    THEN [slice |-> NilSlice, err |-> "length cannot be negative"]
    ELSE [slice |-> MakeSlice([i \in 1..length |-> value]), err |-> "nil"]

\* the fill values of the calls
FillVals == {F(n) : n \in -MaxFill..MaxFill} \cup {Exact(1, -1), PosInf}

UtlInit ==
    /\ isv = Idle /\ s2d = Idle /\ pre = Idle /\ stk = Idle /\ pls = Idle /\ pca = Idle
    /\ csv = Idle /\ cli = Idle /\ vpc = Idle
    /\ \E length \in -MaxFill..MaxFill, value \in FillVals :
          utl = [pc |-> "call", length |-> length, value |-> value,
                 slice |-> NilSlice, err |-> "unset"]

CallCreateFilledSlice ==
    /\ utl.pc = "call"
    /\ LET res == CreateFilledSlice(utl.length, utl.value)
       IN  utl' = [utl EXCEPT !.pc = "done", !.slice = res.slice,
                              !.err = res.err]
    /\ UNCHANGED <<pre, stk, pls, pca, csv, cli, vpc, isv, s2d>>

UtlNext == CallCreateFilledSlice

SpecUtl == UtlInit /\ [][UtlNext]_vars

\* ------------------------------------------------- claims: pkg/utils
\* C11: CreateFilledSlice returns an error and a nil slice when length < 0;
\* for every length >= 0 it returns no error and a non-nil slice of exactly
\* that length (empty for length 0) whose every element is value
C11_CreateFilledSlice ==
    utl.pc = "done" =>
        IF utl.length < 0
        THEN utl.err # "nil" /\ utl.slice.nil
        ELSE /\ utl.err = "nil"
             /\ ~utl.slice.nil
             /\ Len(utl.slice.elems) = utl.length
             /\ \A i \in 1..utl.length : utl.slice.elems[i] = utl.value

\* a call with length 0 that returned an empty, non-nil slice
C11_Witness ==
    /\ utl.pc = "done"
    /\ utl.length = 0
    /\ utl.err = "nil"
    /\ utl.slice = MakeSlice(<<>>)

\* ----------------------------------------------------------- pkg/readdata
\* the largest number of records of a file, and of fields of a record
MaxRecs == 3

MaxFields == 3

\* strings.TrimSpace on the cell texts of the files
TrimSpace(str) ==
    CASE str = " 3 " -> "3"
      [] str = " "   -> ""
      [] OTHER       -> str

\* strconv.ParseFloat(str, 64) on the trimmed cell texts: decimal numbers,
\* the special values NaN and Inf (accepted without error), a number out of
\* the float64 range (an error), anything else a syntax error
ParseFloat(str) ==
    CASE str = "1"     -> [f |-> F(1),         err |-> "nil"]
      [] str = "2.5"   -> [f |-> Exact(5, -1), err |-> "nil"]
      [] str = "3"     -> [f |-> F(3),         err |-> "nil"]
      [] str = "NaN"   -> [f |-> NaN,          err |-> "nil"]
      [] str = "Inf"   -> [f |-> PosInf,       err |-> "nil"]
      [] str = "-Inf"  -> [f |-> NegInf,       err |-> "nil"]
      [] str = "1e999" -> [f |-> PosInf,       err |-> "value out of range"]
      [] OTHER         -> [f |-> Zero,         err |-> "invalid syntax"]

\* convertToFloats(strs): the first cell that fails to parse ends the loop
RECURSIVE convertToFloats(_)
convertToFloats(strs) ==
    IF strs = <<>> THEN [floats |-> <<>>, err |-> "nil"]
    ELSE LET r == ParseFloat(TrimSpace(Head(strs)))
         IN  IF r.err # "nil"
             THEN [floats |-> <<>>, err |-> "error parsing float"]
             ELSE LET rest == convertToFloats(Tail(strs))
                  IN  IF rest.err # "nil" THEN rest
                      ELSE [floats |-> <<r.f>> \o rest.floats, err |-> "nil"]

\* ReadCSV: os.Open fails on a missing file; csv.Reader.ReadAll, with its
\* default FieldsPerRecord of 0, fails on a record whose number of fields
\* differs from the first record's
ReadCSV(file) ==
    IF ~file.exists
    THEN [records |-> <<>>, err |-> "no such file"]
    ELSE IF \E i \in 1..Len(file.records) :
                Len(file.records[i]) # Len(file.records[1])
    THEN [records |-> <<>>, err |-> "wrong number of fields"]
    ELSE [records |-> file.records, err |-> "nil"]

\* ProcessedData{}
EmptyProcessedData ==
    [VariableNames |-> <<>>, ObjectNames |-> <<>>, Data |-> <<>>]

\* the loop of ProcessCSV over the data records from the k-th on
RECURSIVE ProcessRecords(_, _, _, _)
ProcessRecords(records, k, objectNames, floatData) ==
    IF k > Len(records)
    THEN [objectNames |-> objectNames, floatData |-> floatData, err |-> "nil"]
    ELSE LET record   == records[k]
             floatRow == convertToFloats(SubSeq(record, 2, Len(record)))
         IN  IF floatRow.err # "nil"
             THEN [objectNames |-> <<>>, floatData |-> <<>>,
                   err |-> floatRow.err]
             ELSE ProcessRecords(records, k + 1,
                                 Append(objectNames, record[1]),
                                 Append(floatData, floatRow.floats))

\* ProcessCSV(filename)
ProcessCSV(file) ==
    LET read == ReadCSV(file)
        records == read.records
    IN  IF read.err # "nil"
        THEN [data |-> EmptyProcessedData, err |-> read.err]
        ELSE IF Len(records) < 2 \/ Len(records[1]) < 2
        THEN [data |-> EmptyProcessedData,
              err |-> "CSV file must contain at least one row and one column of data"]
        ELSE LET rows == ProcessRecords(records, 2, <<>>, <<>>)
             IN  IF rows.err # "nil"
                 THEN [data |-> EmptyProcessedData, err |-> rows.err]
                 ELSE [data |-> [VariableNames |->
                                     SubSeq(records[1], 2, Len(records[1])),
                                 ObjectNames |-> rows.objectNames,
                                 Data |-> rows.floatData],
                       err |-> "nil"]

\* the texts of the data cells
CellTexts == {"1", "2.5", " 3 ", "abc", "", " ", "NaN", "Inf", "-Inf", "1e999"}

\* the names of the header and of the first column
NameOf(i, j) ==
    IF i = 1 THEN (IF j = 1 THEN "" ELSE "Variable")
    ELSE "Object"

\* the files: records of any lengths, every data cell holding the text
\* base but for one cell, at position at, holding the text odd
CsvFile(lens, base, at, odd) ==
    [exists  |-> TRUE,
     records |-> [i \in 1..Len(lens) |->
                    [j \in 1..lens[i] |->
                        IF i = 1 \/ j = 1 THEN NameOf(i, j)
                        ELSE IF <<i, j>> = at THEN odd ELSE base]]]

CsvFiles ==
    {[exists |-> FALSE, records |-> <<>>]}
    \cup { CsvFile(lens, base, at, odd) :
             lens \in UNION {[1..n -> 1..MaxFields] : n \in 0..MaxRecs},
             base \in {"1", "2.5"},
             at \in (2..MaxRecs) \X (2..MaxFields),
             odd \in CellTexts }

CsvInit ==
    /\ isv = Idle /\ s2d = Idle /\ pre = Idle /\ stk = Idle /\ pls = Idle /\ pca = Idle
    /\ utl = Idle /\ cli = Idle /\ vpc = Idle
    /\ \E file \in CsvFiles :
          csv = [pc |-> "call", file |-> file,
                 data |-> EmptyProcessedData, err |-> "unset"]

CallProcessCSV ==
    /\ csv.pc = "call"
    /\ LET res == ProcessCSV(csv.file)
       IN  csv' = [csv EXCEPT !.pc = "done", !.data = res.data,
                              !.err = res.err]
    /\ UNCHANGED <<pre, stk, pls, pca, utl, cli, vpc, isv, s2d>>

CsvNext == CallProcessCSV

SpecCsv == CsvInit /\ [][CsvNext]_vars

\* ------------------------------------------------- claims: pkg/readdata
\* the data cells of a file, as positions
DataCells(file) ==
    {<<i, j>> \in (2..MaxRecs) \X (2..MaxFields) :
        i <= Len(file.records) /\ j <= Len(file.records[i])}

\* a file with fewer than one data row or data column, with a ragged row,
\* or with a cell that does not parse as a finite number
Unacceptable(file) ==
    \/ ~file.exists
    \/ Len(file.records) < 2
    \/ Len(file.records[1]) < 2
    \/ \E i \in 1..Len(file.records) :
          Len(file.records[i]) # Len(file.records[1])
    \/ \E ij \in DataCells(file) :
          LET r == ParseFloat(TrimSpace(file.records[ij[1]][ij[2]]))
          IN  r.err # "nil" \/ ~IsNum(r.f)

\* C12 as stated: whenever ProcessCSV returns without error every row of
\* Data is as long as VariableNames, ObjectNames has one entry per data row
\* and every cell of Data is finite; every file with fewer than one data
\* row or column, a ragged row or a cell that is not a finite number (the
\* texts NaN and Inf included) is rejected with an error and an empty
\* ProcessedData
C12_Claim ==
    csv.pc = "done" =>
        /\ csv.err = "nil" =>
              /\ \A i \in 1..Len(csv.data.Data) :
                    Len(csv.data.Data[i]) = Len(csv.data.VariableNames)
              /\ Len(csv.data.ObjectNames) = Len(csv.data.Data)
              /\ \A i \in 1..Len(csv.data.Data) :
                    \A j \in 1..Len(csv.data.Data[i]) :
                        IsNum(csv.data.Data[i][j])
        /\ Unacceptable(csv.file) =>
              (csv.err # "nil" /\ csv.data = EmptyProcessedData)

\* ------------------------------------------ CalculateVariancePercentages
\* the largest number of eigenvalues handed to CalculateVariancePercentages
MaxEig == 3

\* CalculateVariancePercentages with the division by the number of entries
CalculateVarianceShares(eigenvalues) ==
    [eigenvalues |-> eigenvalues,
     out |-> [i \in 1..Len(eigenvalues) |->
                FMul(FDiv(eigenvalues[i], F(Len(eigenvalues))), F(100))]]

\* CalculateVariancePercentages(eigenvalues): the slice after the call and
\* the slice returned
CalculateVariancePercentages(eigenvalues) ==
    LET sumEigenvalues == SumFrom(Zero, eigenvalues)
    IN  [eigenvalues |-> eigenvalues,
         out |-> [i \in 1..Len(eigenvalues) |->
                    FMul(FDiv(eigenvalues[i], sumEigenvalues), F(100))]]

\* the values of the entries
EigVals == {F(-1), F(0), F(1), F(2), F(3)}

VpcInit ==
    /\ isv = Idle /\ s2d = Idle /\ pre = Idle /\ stk = Idle /\ pls = Idle /\ pca = Idle
    /\ utl = Idle /\ csv = Idle /\ cli = Idle
    /\ \E n \in 0..MaxEig : \E eigenvalues \in [1..n -> EigVals] :
          vpc = [pc |-> "call", eigenvalues |-> eigenvalues,
                 eigenvalues0 |-> eigenvalues, out |-> <<>>]

CallCalculateVariancePercentages ==
    /\ vpc.pc = "call"
    /\ LET res == CalculateVariancePercentages(vpc.eigenvalues)
       IN  vpc' = [vpc EXCEPT !.pc = "done", !.out = res.out,
                              !.eigenvalues = res.eigenvalues]
    /\ UNCHANGED <<pre, stk, pls, pca, utl, csv, cli, isv, s2d>>

VpcNext == CallCalculateVariancePercentages

SpecVpc == VpcInit /\ [][VpcNext]_vars

\* ------------------------- claims: CalculateVariancePercentages
\* the result has the length of the input, the input is not modified, and
\* entry i is the quotient of eigenvalue i by the sum, times 100
VpcResult ==
    /\ Len(vpc.out) = Len(vpc.eigenvalues0)
    /\ vpc.eigenvalues = vpc.eigenvalues0
    /\ \A i \in 1..Len(vpc.out) :
          vpc.out[i] = FMul(FDiv(vpc.eigenvalues0[i], Sum(vpc.eigenvalues0)),
                            F(100))

\* C14 as stated: the result is as above and, for every non-empty input
\* with at least one nonzero entry, its entries sum to 100
C14_Original ==
    vpc.pc = "done" =>
        /\ VpcResult
        /\ (\E i \in 1..Len(vpc.eigenvalues0) : vpc.eigenvalues0[i] # Zero)
              => Sum(vpc.out) = F(100)

\* C14 amended: the result is as above and, for every input without a
\* negative entry and with at least one nonzero entry, its entries sum to
\* 100 up to rounding: within 400 * n * 2^-Prec of 100 for n entries
C14_VariancePercentages ==
    vpc.pc = "done" =>
        /\ VpcResult
        /\ LET e == vpc.eigenvalues0
               n == Len(e)
           IN  (/\ \A i \in 1..n : ~NumLt(e[i], Zero)
                /\ \E i \in 1..n : e[i] # Zero)
                  => /\ IsNum(Sum(vpc.out))
                     /\ ~NumLt(Exact(100 * (2 ^ Prec) + 400 * n, -Prec),
                               Sum(vpc.out))
                     /\ ~NumLt(Sum(vpc.out),
                               Exact(100 * (2 ^ Prec) - 400 * n, -Prec))

\* a call on several positive entries whose percentages do not add up to
\* exactly 100
C14_Witness ==
    /\ vpc.pc = "done"
    /\ Len(vpc.eigenvalues0) >= 2
    /\ \A i \in 1..Len(vpc.eigenvalues0) : NumLt(Zero, vpc.eigenvalues0[i])
    /\ IsNum(Sum(vpc.out))
    /\ Sum(vpc.out) # F(100)

\* ------------------------------------------------- the PCA command line
\* SliceToDense filling every row of the matrix from the first row
SliceToDenseFirstRow(data) ==
    IF Len(data) = 0 \/ Len(data[1]) = 0
    THEN [status |-> "panic", M |-> EmptyDense]
    ELSE IF \E i \in 1..Len(data) : Len(data[i]) # Len(data[1])
    THEN [status |-> "nil", M |-> EmptyDense]
    ELSE [status |-> "ok",
          M |-> [r |-> Len(data), c |-> Len(data[1]),
                 d |-> [i \in 1..Len(data) |-> data[1]]]]

\* SliceToDense(data): mat.NewDense(0, 0, nil) panics on empty data, rows
\* of unequal lengths give nil, otherwise the matrix of the rows
SliceToDense(data) ==
    IF Len(data) = 0 \/ Len(data[1]) = 0
    THEN [status |-> "panic", M |-> EmptyDense]
    ELSE IF \E i \in 1..Len(data) : Len(data[i]) # Len(data[1])
    THEN [status |-> "nil", M |-> EmptyDense]
    ELSE [status |-> "ok",
          M |-> [r |-> Len(data), c |-> Len(data[1]), d |-> data]]

\* DenseToSlice(d): the rows of the matrix
DenseToSlice(M) == [i \in 1..M.r |-> [j \in 1..M.c |-> At(M, i, j)]]

\* determineNumComponents with the test numComponentsFlag < 0
determineNumComponentsNegativeOnly(X, numComponentsFlag) ==
    IF numComponentsFlag < 0 THEN X.c ELSE numComponentsFlag

\* determineNumComponents(X), with the comps option as a parameter
determineNumComponents(X, numComponentsFlag) ==
    IF numComponentsFlag <= 0 THEN X.c ELSE numComponentsFlag

\* the files of the runs: n records of m fields, the data cells holding
\* 1 and 2.5 in turn but for the first, which holds odd
CliFile(n, m, odd) ==
    [exists  |-> TRUE,
     records |-> [i \in 1..n |-> [j \in 1..m |->
                    IF i = 1 \/ j = 1 THEN NameOf(i, j)
                    ELSE IF <<i, j>> = <<2, 2>> THEN odd
                    ELSE IF (i + j) % 2 = 0 THEN "1" ELSE "2.5"]]]

CliFiles ==
    { CliFile(n, m, odd) :
        n \in 0..MaxRecs, m \in 1..MaxFields, odd \in {" 3 ", "abc"} }

\* Results{}
NoResults ==
    [VariableNames |-> <<>>, ObjectNames |-> <<>>, NumComponents |-> 0,
     Scores |-> <<>>, Loadings |-> <<>>, Eigenvalues |-> <<>>,
     VariancePercentages |-> <<>>, XMean |-> <<>>, XStd |-> <<>>]

CliInit ==
    /\ isv = Idle /\ s2d = Idle /\ pre = Idle /\ stk = Idle /\ pls = Idle /\ pca = Idle
    /\ utl = Idle /\ csv = Idle /\ vpc = Idle
    /\ \E file \in CliFiles, numComponentsFlag \in -1..MaxComp,
          autoScaleFlag \in BOOLEAN :
          cli = [pc |-> "start", file |-> file,
                 numComponentsFlag |-> numComponentsFlag,
                 autoScaleFlag |-> autoScaleFlag,
                 records |-> EmptyProcessedData, X |-> EmptyDense,
                 numComponents |-> 0, Xpre |-> EmptyDense,
                 Xmean |-> <<>>, Xstd |-> <<>>,
                 results |-> NoResults, fatal |-> "none"]

\* doAnalysis, lines 107-110, with loadData: the file is read and turned
\* into a matrix; log.Fatalf ends the run on an error
doAnalysis_LoadData ==
    /\ cli.pc = "start"
    /\ LET res == ProcessCSV(cli.file)
           X   == SliceToDense(res.data.Data)
       IN  IF res.err # "nil"
           THEN cli' = [cli EXCEPT !.pc = "fatal", !.fatal = res.err]
           ELSE IF X.status = "panic"
           THEN cli' = [cli EXCEPT !.pc = "panic", !.records = res.data]
           ELSE cli' = [cli EXCEPT !.pc = IF X.status = "nil" THEN "nilX"
                                          ELSE "loaded",
                                   !.records = res.data, !.X = X.M]
    /\ UNCHANGED <<pre, stk, pls, pca, utl, csv, vpc, isv, s2d>>

\* the state of NIPALS at its call on the matrix X
NipalsCall(X, numComponents) ==
    [pc |-> "call", heap |-> <<X>>, X |-> 1, X0 |-> X,
     numComponents |-> numComponents,
     T |-> Nil, P |-> Nil, XRes |-> Nil, Eigenvalues |-> <<>>,
     t |-> EmptyDense, p |-> EmptyDense, tNew |-> EmptyDense,
     outerProduct |-> EmptyDense, sub |-> EmptyDense,
     i |-> 0, j |-> 0, stored |-> <<>>,
     written |-> {}, panic |-> "none", err |-> "unset"]

\* doAnalysis, lines 116-126: Xpre, Xmean and Xstd from what Autoscale or
\* MeanCenter returned; without autoscaling Xstd is 1.0 for every column
PreprocessOut(res, autoScaleFlag) ==
    [Xpre  |-> res.heap[res.ref],
     Xmean |-> res.colMeans,
     Xstd  |-> IF autoScaleFlag THEN res.colStd
               ELSE CreateFilledSlice(res.heap[res.ref].c, F(1)).slice.elems]

Preprocess(X, autoScaleFlag) ==
    PreprocessOut(IF autoScaleFlag THEN Autoscale(<<X>>, 1)
                  ELSE MeanCenter(<<X>>, 1),
                  autoScaleFlag)

\* doAnalysis, line 129: NIPALS is called on Xpre with numComponents
CallNIPALS(out, numComponents) ==
    /\ cli' = [cli EXCEPT !.pc = "nipals", !.numComponents = numComponents,
                          !.Xpre = out.Xpre, !.Xmean = out.Xmean,
                          !.Xstd = out.Xstd]
    /\ pca' = NipalsCall(out.Xpre, numComponents)

\* doAnalysis, lines 113-129: the number of components, the preprocessing
\* and the call of NIPALS on the preprocessed matrix; X.Dims() on a nil
\* matrix panics
doAnalysis_Preprocess ==
    /\ cli.pc \in {"loaded", "nilX"}
    /\ IF cli.pc = "nilX"
       THEN cli' = [cli EXCEPT !.pc = "panic"] /\ pca' = pca
       ELSE CallNIPALS(Preprocess(cli.X, cli.autoScaleFlag),
                       determineNumComponents(cli.X, cli.numComponentsFlag))
    /\ UNCHANGED <<pre, stk, pls, utl, csv, vpc, isv, s2d>>

\* doAnalysis, lines 130-137: after NIPALS has returned, the variance
\* percentages and the results that are printed or saved
doAnalysis_Results ==
    /\ cli.pc = "nipals"
    /\ pca.pc \in {"done", "panic"}
    /\ IF pca.pc = "panic"
       THEN cli' = [cli EXCEPT !.pc = "panic"]
       ELSE cli' = [cli EXCEPT
               !.pc = "done",
               !.results =
                  [VariableNames |-> cli.records.VariableNames,
                   ObjectNames   |-> cli.records.ObjectNames,
                   NumComponents |-> cli.numComponents,
                   Scores        |-> DenseToSlice(pca.heap[pca.T]),
                   Loadings      |-> DenseToSlice(pca.heap[pca.P]),
                   Eigenvalues   |-> pca.Eigenvalues,
                   VariancePercentages |->
                      CalculateVariancePercentages(pca.Eigenvalues).out,
                   XMean |-> cli.Xmean,
                   XStd  |-> cli.Xstd]]
    /\ UNCHANGED <<pre, stk, pls, pca, utl, csv, vpc, isv, s2d>>

CliNext ==
    \/ doAnalysis_LoadData
    \/ doAnalysis_Preprocess
    \/ NIPALS_Enter
    \/ NIPALS_Component
    \/ NIPALS_Iterate
    \/ NIPALS_IterationCap
    \/ NIPALS_Store
    \/ NIPALS_Return
    \/ doAnalysis_Results

SpecCli == CliInit /\ [][CliNext]_vars

\* ------------------------------------------ claims: the PCA command line
\* the number of variables of the file of the run
CliVariables == Len(cli.records.VariableNames)

\* C13: NIPALS is handed the comps option when it is > 0 and the number of
\* variables otherwise, so for every file ProcessCSV accepts and every
\* option value the component count handed over is >= 1; without
\* autoscaling the exported x_std is 1.0 once per variable
C13_ComponentCount ==
    /\ cli.pc = "fatal" => ProcessCSV(cli.file).err # "nil"
    /\ (cli.pc # "start" /\ ProcessCSV(cli.file).err = "nil") =>
          cli.pc \in {"loaded", "nipals", "done"}
    /\ pca.pc # "idle" =>
          /\ cli.pc \in {"nipals", "done"}
          /\ pca.numComponents = IF cli.numComponentsFlag > 0
                                 THEN cli.numComponentsFlag
                                 ELSE CliVariables
          /\ pca.numComponents >= 1
          /\ pca.X0 = cli.Xpre
    /\ cli.pc = "done" =>
          /\ cli.results.NumComponents = pca.numComponents
          /\ ~cli.autoScaleFlag =>
                cli.results.XStd = [j \in 1..CliVariables |-> F(1)]

\* a finished run without autoscaling and with the comps option 0, on a
\* file of two variables
C13_Witness ==
    /\ cli.pc = "done"
    /\ cli.numComponentsFlag = 0
    /\ ~cli.autoScaleFlag
    /\ CliVariables = 2
    /\ cli.results.NumComponents = 2
    /\ cli.results.XStd = <<F(1), F(1)>>

\* ------------------------------------- claims: the iterations of NIPALS PLS
\* C15 as stated: at the first inner iteration of every component the u
\* from which w = X^T u is computed is the vector InitializeScores(Y)
\* produced for that component
C15_Claim ==
    (pls.pc = "inner" /\ pls.iteration = 0 /\ pls.maxIter >= 1) =>
        pls.heap[pls.u] = pls.heap[pls.uInit]

\* C16 as stated (its last part): from iteration 1 on, the previous t that
\* the convergence test compares with is a vector of its own holding the
\* values of the earlier iteration, not the vector the current t is
\* computed into
C16_Claim ==
    (pls.pc = "inner" /\ pls.iteration >= 1) =>
        /\ pls.tOld # Nil
        /\ pls.tOld # pls.t

\* C17 as stated: whenever c components are finished (maxIter >= 1, any
\* tol) each of the accumulators W, P and Q holds exactly c entries, and
\* the entry of the last component is the last w, p, q its inner loop
\* computed
C17_Claim ==
    (pls.pc = "loop" /\ pls.maxIter >= 1) =>
        /\ Len(pls.W) = pls.c /\ Len(pls.P) = pls.c /\ Len(pls.Q) = pls.c
        /\ pls.c >= 1 =>
              /\ pls.W[pls.c] = pls.w
              /\ pls.P[pls.c] = pls.p
              /\ pls.Q[pls.c] = pls.q

\* ------------------------------------- claims: the iterations of NIPALS PCA
\* the loading of the current iteration before it is normalized, its norm,
\* the normalized loading and the candidate score
IterP == MatMul(Transpose(pca.heap[pca.XRes]), pca.t)

IterPNorm == Norm2(RawData(IterP))

IterPUnit == MatScale(FDiv(F(1), IterPNorm), IterP)

IterTNew == MatMul(pca.heap[pca.XRes], IterPUnit)

\* the convergence test of the current iteration fires
IterConverged ==
    FLt(FSub(Norm2(RawData(IterTNew)), Norm2(RawData(pca.t))), epsilon)

\* the inner loop is about to run an iteration whose loading is not zero
IterRuns ==
    pca.pc = "inner" /\ pca.j < maxIterations /\ ~FEq(IterPNorm, Zero)

IsZeroMatrix(M) == \A i \in 1..M.r : \A j \in 1..M.c : At(M, i, j) = Zero

\* C19: when the loading p = residual^T * t has norm exactly zero the inner
\* loop ends at once and p is not divided by the norm; the component is
\* still stored, with that zero p, and the residual still deflated; the
\* remaining components are still extracted and the error returned is nil
C19_ZeroLoading ==
    [][/\ (pca.pc = "inner" /\ pca.j < maxIterations /\ FEq(IterPNorm, Zero)) =>
            /\ pca'.pc = "store"
            /\ pca'.p = IterP /\ IsZeroMatrix(pca'.p)
            /\ pca'.t = pca.t /\ pca'.j = pca.j
       /\ (pca.pc = "store" /\ IsZeroMatrix(pca.p)) =>
            /\ pca'.pc = "loop" /\ pca'.i = pca.i + 1
            /\ Col(pca'.heap[pca.T], pca.i + 1) = RawData(pca.t)
            /\ Col(pca'.heap[pca.P], pca.i + 1) = RawData(pca.p)
            /\ pca'.heap[pca.XRes] =
                  MatSub(pca.heap[pca.XRes], MatMul(pca.t, Transpose(pca.p)))
            /\ pca.XRes \in pca'.written
       /\ (pca.pc = "loop" /\ pca.numComponents >= 1) =>
            IF pca.i < pca.numComponents
            THEN pca'.pc = "inner"
            ELSE pca'.pc = "done" /\ pca'.err = "nil"
                 /\ Len(pca'.stored) = pca.numComponents]_vars

\* a finished fit whose first component has a loading that is not zero and
\* whose second component was stored with a zero loading
C19_Witness ==
    /\ pca.pc = "done"
    /\ pca.err = "nil"
    /\ pca.numComponents >= 2
    /\ Len(pca.stored) = pca.numComponents
    /\ ~IsZeroMatrix(pca.stored[1].p)
    /\ IsZeroMatrix(pca.stored[2].p)
    /\ \A i \in 1..pca.heap[pca.P].r : At(pca.heap[pca.P], i, 2) = Zero

\* column j of M as an M.r x 1 matrix
ColMatrix(M, j) == [r |-> M.r, c |-> 1, d |-> [i \in 1..M.r |-> <<At(M, i, j)>>]]

\* X after the rank-1 deflations by the first k columns of T and P, taken
\* one after the other
RECURSIVE Deflated(_, _, _, _)
Deflated(X, T, P, k) ==
    IF k = 0 THEN X
    ELSE MatSub(Deflated(X, T, P, k - 1),
                MatMul(ColMatrix(T, k), Transpose(ColMatrix(P, k))))

\* C20: after k finished components the residual is the input X less the
\* outer products of the stored columns T[:, i] and P[:, i], i < k,
\* subtracted one after the other: one rank-1 deflation per component, by
\* the t and p that were stored for it
C20_Residual ==
    pca.pc \in {"loop", "inner", "store", "done"} =>
        /\ Len(pca.stored) = pca.i
        /\ pca.i <= pca.numComponents
        /\ \A k \in 1..pca.i :
              /\ Col(pca.heap[pca.T], k) = RawData(pca.stored[k].t)
              /\ Col(pca.heap[pca.P], k) = RawData(pca.stored[k].p)
        /\ pca.heap[pca.XRes] =
              Deflated(pca.X0, pca.heap[pca.T], pca.heap[pca.P], pca.i)

\* a finished fit of two components, each of which changed the residual
C20_Witness ==
    /\ pca.pc = "done"
    /\ pca.i = 2
    /\ Deflated(pca.X0, pca.heap[pca.T], pca.heap[pca.P], 1) # pca.X0
    /\ pca.heap[pca.XRes] #
          Deflated(pca.X0, pca.heap[pca.T], pca.heap[pca.P], 1)
    /\ IsNum(pca.Eigenvalues[2])

\* ------------------------------------------------- initialScoreVector alone
\* the values a cell of the matrix handed to initialScoreVector is drawn from:
\* a column of 16 and 17 has a large mean and a small variance
IsvVals == {F(0), F(2), F(16), F(17)}

IsvInit ==
    /\ s2d = Idle /\ pre = Idle /\ stk = Idle /\ pls = Idle /\ pca = Idle
    /\ utl = Idle /\ csv = Idle /\ cli = Idle /\ vpc = Idle
    /\ \E r \in 1..PcaRows, c \in 1..MaxCols :
          \E X \in Matrices(r, c, IsvVals) :
             isv = [pc |-> "call", X |-> X, out |-> EmptyDense]

\* t.CloneFrom(initialScoreVector(XRes)) for the residual X
CallInitialScoreVector ==
    /\ isv.pc = "call"
    /\ isv' = [isv EXCEPT !.pc = "done", !.out = initialScoreVector(isv.X)]
    /\ UNCHANGED <<pre, stk, pls, pca, utl, csv, cli, vpc, s2d>>

IsvNext == CallInitialScoreVector

SpecIsv == IsvInit /\ [][IsvNext]_vars

\* ------------------------------------------------ claims: the initial score
IsFinite(M) == \A i \in 1..M.r, j \in 1..M.c : IsNum(At(M, i, j))

RECURSIVE MinOver(_)
\* the least element of a non-empty finite set of integers
MinOver(S) ==
    LET x == CHOOSE y \in S : TRUE
    IN  IF S = {x} THEN x ELSE Min2(x, MinOver(S \ {x}))

\* the entries of a finite matrix M as integers: M[i][j] = Scaled * 2^LowExp
LowExp(M) == MinOver({At(M, i, j).e : i \in 1..M.r, j \in 1..M.c})

Scaled(M, i, j) == At(M, i, j).m * (2 ^ (At(M, i, j).e - LowExp(M)))

RECURSIVE IntSum(_)
IntSum(s) == IF s = <<>> THEN 0 ELSE Head(s) + IntSum(Tail(s))

\* the population variance of column j of M times (M.r * 2^LowExp)^2,
\* computed without rounding
ScaledVariance(M, j) ==
    LET n == [i \in 1..M.r |-> Scaled(M, i, j)]
    IN  M.r * IntSum([i \in 1..M.r |-> n[i] * n[i]]) - IntSum(n) * IntSum(n)

\* the lowest index among the columns of largest variance, and the first
\* column when no column has positive variance
LargestVarianceColumn(M) ==
    IF \A j \in 1..M.c : ScaledVariance(M, j) <= 0 THEN 1
    ELSE CHOOSE j \in 1..M.c :
            /\ \A k \in 1..M.c : ScaledVariance(M, k) <= ScaledVariance(M, j)
            /\ \A k \in 1..(j - 1) : ScaledVariance(M, k) < ScaledVariance(M, j)

\* C21: the initial score of a component is the column of the residual with
\* the largest population variance, the lowest index among ties, and the
\* first column when no column has positive variance
C21_Claim ==
    isv.pc = "done" =>
        isv.out = ColMatrix(isv.X, LargestVarianceColumn(isv.X))

\* ------------------------------------------------- claims: unit-norm vectors
\* |a - 1| <= 2^(2 - Prec): a is 1 up to a few units of rounding
NearOne(a) ==
    /\ IsNum(a)
    /\ ~NumLt(a, FSub(F(1), Exact(1, 2 - Prec)))
    /\ ~NumLt(FAdd(F(1), Exact(1, 2 - Prec)), a)

\* C22: once a pass of the inner loop of NipalsPLS has computed and
\* normalized w and t, both have Euclidean norm 1
C22_Claim ==
    (pls.pc \in {"inner", "endcomp"} /\ pls.w # Nil) =>
        /\ NearOne(Norm2(RawData(pls.heap[pls.w])))
        /\ NearOne(Norm2(RawData(pls.heap[pls.t])))

\* ------------------------------------------------------ a fit of either engine
\* one fit, by NIPALS (PCA) or by NipalsPLS, followed for a PLS fit that
\* returned a model by the prediction on the training matrix; X is 2 x 2,
\* of numbers or of NaN, for PCA, and X and Y have 2 rows and 1 or 2
\* columns for PLS
FitInit ==
    /\ s2d = Idle /\ pre = Idle /\ stk = Idle /\ utl = Idle /\ csv = Idle
    /\ cli = Idle /\ vpc = Idle /\ isv = Idle
    /\ \/ /\ pls = Idle
          /\ \E X \in Matrices(2, 2, PcaVals) \cup {Uniform(2, 2, NaN)},
                numComponents \in 0..MaxComp :
                pca = [pc |-> "call", heap |-> <<X>>, X |-> 1, X0 |-> X,
                       numComponents |-> numComponents,
                       T |-> Nil, P |-> Nil, XRes |-> Nil, Eigenvalues |-> <<>>,
                       t |-> EmptyDense, p |-> EmptyDense, tNew |-> EmptyDense,
                       outerProduct |-> EmptyDense, sub |-> EmptyDense,
                       i |-> 0, j |-> 0, stored |-> <<>>,
                       written |-> {}, panic |-> "none", err |-> "unset"]
       \/ /\ pca = Idle
          /\ \E ncomp \in 0..MaxComp, maxIter \in 0..MaxIter, tol \in PlsTols,
                s \in 0..1, Cx \in 1..2, Cy \in 1..2 :
                LET X == PlsData(s, 2, Cx)
                    Y == PlsData(s + 1, 2, Cy)
                IN  pls = [pc |-> "call", heap |-> <<X, Y>>, X |-> 1, Y |-> 2,
                           X0 |-> X, Y0 |-> Y,
                           ncomp |-> ncomp, maxIter |-> maxIter, tol |-> tol,
                           T |-> Nil, P |-> <<>>, Q |-> <<>>, W |-> <<>>,
                           c |-> 0, iteration |-> 0,
                           t |-> Nil, p |-> Nil, q |-> Nil, u |-> Nil, w |-> Nil,
                           tOld |-> Nil, uInit |-> Nil,
                           written |-> {}, panic |-> "none",
                           model |-> [T |-> Nil, P |-> Nil, Q |-> Nil, W |-> Nil],
                           err |-> "nil", YPred |-> Nil]

FitNext == PcaNext \/ PlsNext

\* the fit has ended: the function has returned or panicked and no step of
\* FitNext is left to take
FitEnded ==
    /\ pca.pc \in {"idle", "done", "panic"}
    /\ \/ pls.pc \in {"idle", "predicted", "panic"}
       \/ pls.pc = "done" /\ pls.err # "nil"

\* the program is sequential and runs on: weak fairness of FitNext, with the
\* enabling condition of FitNext written out as ~FitEnded
FitFairness == []<>FitEnded \/ []<><<FitNext>>_vars

SpecFit == FitInit /\ [][FitNext]_vars /\ FitFairness

\* ------------------------------------------------------- claims: termination
\* the inner loop of a component has run into the iteration cap
PcaCapReached == pca.pc = "inner" /\ pca.j >= maxIterations

PlsCapReached == pls.pc = "inner" /\ pls.iteration >= pls.maxIter

\* the fit has returned its result with a nil error
PcaReturned ==
    /\ pca.pc = "done"
    /\ pca.err = "nil"
    /\ pca.i = pca.numComponents
    /\ Len(pca.stored) = pca.numComponents

PlsReturned ==
    /\ pls.pc \in {"done", "predicted", "panic"}
    /\ pls.err = "nil"
    /\ pls.model.T # Nil
    /\ pls.c = pls.ncomp

\* the counters of the two loops of a fit stay within their caps
LoopBounds ==
    /\ pca.pc \in {"loop", "inner", "store", "done"} =>
          /\ pca.j <= maxIterations
          /\ pca.i <= pca.numComponents
    /\ pls.pc \in {"loop", "inner", "endcomp", "done", "predicted"} =>
          /\ pls.iteration <= pls.maxIter
          /\ pls.c <= pls.ncomp

\* C23 as stated: a fit whose last component left its inner loop at the
\* iteration cap (the counter is at the cap after the loop) has returned a
\* result with a nil error, in either engine
C23_Original ==
    /\ (pca.pc = "done" /\ pca.numComponents >= 1 /\ pca.j >= maxIterations)
          => PcaReturned
    /\ (pls.pc = "done" /\ pls.ncomp >= 1 /\ pls.iteration >= pls.maxIter)
          => PlsReturned

\* C23: every fit ends (NIPALS panics when numComponents = 0, NipalsPLS when
\* ncomp = 0), with at most maxIterations (maxIter) passes of the inner loop
\* for each of numComponents (ncomp) components; a component that runs into
\* the cap is followed by the remaining ones and by a result with a nil
\* error, in NipalsPLS provided maxIter >= 1
C23_Termination ==
    /\ [] LoopBounds
    /\ <>[] FitEnded
    /\ (pca.pc = "call" /\ pca.numComponents >= 1) ~> PcaReturned
    /\ PcaCapReached ~> PcaReturned
    /\ (PlsCapReached /\ pls.maxIter >= 1) ~> PlsReturned

\* a PLS fit of two components has returned its model after the last
\* component left its inner loop at the cap
C23_Witness ==
    /\ pls.pc = "done"
    /\ pls.ncomp >= 2
    /\ pls.maxIter >= 1
    /\ pls.iteration = pls.maxIter
    /\ PlsReturned

\* ------------------------------------------------------- claims: eigenvalues
\* the sum of the squares of the values of s, accumulated from left to right
SumOfSquares(s) == Sum([k \in 1..Len(s) |-> FMul(s[k], s[k])])

\* the stored score column of component k
ScoreColumn(k) == Col(pca.heap[pca.T], k)

FiniteColumn(s) == \A n \in 1..Len(s) : IsNum(s[n])

\* C24 as stated: the eigenvalue of every returned component whose stored
\* score column is finite equals the sum of squares of that column, is
\* >= 0, and is 0 exactly when the column is all zero
C24_Original ==
    pca.pc = "done" =>
        \A k \in 1..pca.numComponents :
           FiniteColumn(ScoreColumn(k)) =>
              /\ pca.Eigenvalues[k] = SumOfSquares(ScoreColumn(k))
              /\ ~NumLt(pca.Eigenvalues[k], Zero)
              /\ pca.Eigenvalues[k] = Zero <=>
                    \A n \in 1..Len(ScoreColumn(k)) : ScoreColumn(k)[n] = Zero

\* C24: the eigenvalue of every returned component is the square of the
\* Euclidean norm of the stored column of T; for a finite column it is
\* within 4 * 2^-Prec of the column's sum of squares, relatively, is >= 0,
\* and is 0 exactly when the column is all zero; for a column holding NaN
\* it is NaN
C24_Eigenvalues ==
    pca.pc = "done" =>
        \A k \in 1..pca.numComponents :
           LET col == ScoreColumn(k)
               ev  == pca.Eigenvalues[k]
           IN  /\ ev = FMul(Norm2(col), Norm2(col))
               /\ FiniteColumn(col) =>
                     /\ IsNum(ev)
                     /\ ~NumLt(ev, Zero)
                     /\ AbsLeqScaled(FSub(ev, SumOfSquares(col)), 4, -Prec,
                                     SumOfSquares(col))
                     /\ ev = Zero <=> \A n \in 1..Len(col) : col[n] = Zero
               /\ (\E n \in 1..Len(col) : IsNaN(col[n])) => IsNaN(ev)

\* a returned fit with a finite score column whose eigenvalue differs from
\* the column's sum of squares, and with another of eigenvalue zero
C24_Witness ==
    /\ pca.pc = "done"
    /\ \E k \in 1..pca.numComponents :
          /\ FiniteColumn(ScoreColumn(k))
          /\ pca.Eigenvalues[k] # SumOfSquares(ScoreColumn(k))
    /\ \E k \in 1..pca.numComponents : pca.Eigenvalues[k] = Zero

\* ------------------------------------------- claims: the model of a PLS fit
\* a fit of finite data with ncomp >= 1, maxIter >= 1 and tol > 0
PlsRegularFit ==
    /\ pls.pc # "idle"
    /\ pls.ncomp >= 1 /\ pls.maxIter >= 1 /\ FLt(Zero, pls.tol)
    /\ IsFinite(pls.X0) /\ IsFinite(pls.Y0)

\* the returned T, P, Q and W are all zero and X and Y hold their values
PlsZeroModel ==
    /\ IsZeroMatrix(pls.heap[pls.model.T])
    /\ IsZeroMatrix(pls.heap[pls.model.P])
    /\ IsZeroMatrix(pls.heap[pls.model.Q])
    /\ IsZeroMatrix(pls.heap[pls.model.W])
    /\ pls.heap[pls.X] = pls.X0
    /\ pls.heap[pls.Y] = pls.Y0

\* C25 as stated: a regular fit returns an all-zero model and leaves the
\* values of X and Y as they were, and every component makes exactly one
\* full pass of the inner loop and then leaves it through the convergence
\* test at iteration 1, never at the iteration cap
C25_Original ==
    PlsRegularFit =>
        /\ pls.pc \in {"done", "predicted", "panic"} =>
              /\ pls.err = "nil"
              /\ PlsZeroModel
              /\ Len(pls.W) = pls.ncomp
        /\ pls.pc = "endcomp" => pls.iteration = 1
        /\ pls.pc = "inner" => pls.iteration < pls.maxIter

\* C25: a regular fit returns an all-zero model and leaves the values of X
\* and Y as they were, whatever the data and the random scores; every
\* component makes exactly one full pass of the inner loop, after which the
\* convergence test fires at iteration 1 when maxIter >= 2, and the loop
\* ends at the iteration cap when maxIter = 1
C25_ZeroModel ==
    PlsRegularFit =>
        /\ pls.pc \in {"done", "predicted", "panic"} =>
              /\ pls.err = "nil"
              /\ PlsZeroModel
              /\ Len(pls.W) = pls.ncomp
              /\ Len(pls.P) = pls.ncomp
              /\ Len(pls.Q) = pls.ncomp
        /\ pls.pc = "endcomp" => pls.iteration = 1
        /\ pls.pc = "inner" =>
              /\ pls.iteration <= 1
              /\ pls.iteration >= pls.maxIter => pls.maxIter = 1

\* a regular fit of two components, with room for a second pass, returned
C25_Witness ==
    /\ PlsRegularFit
    /\ PlsModelReturned
    /\ pls.ncomp >= 2
    /\ pls.maxIter >= 2
    /\ pls.X0.r >= 2

\* ------------------------------------------- SliceToDense and DenseToSlice
\* the slices handed to SliceToDense: rows of any lengths, the cell at
\* (i, j) holding 4 i + j
RowsOf(lens) == [i \in 1..Len(lens) |-> [j \in 1..lens[i] |-> F(4 * i + j)]]

SliceData == { RowsOf(lens) : lens \in UNION {[1..n -> 0..MaxFields] : n \in 0..MaxRecs} }

S2dInit ==
    /\ pre = Idle /\ stk = Idle /\ pls = Idle /\ pca = Idle /\ utl = Idle
    /\ csv = Idle /\ cli = Idle /\ vpc = Idle /\ isv = Idle
    /\ \E data \in SliceData :
          s2d = [pc |-> "call", data |-> data, M |-> EmptyDense, out |-> <<>>]

\* X := SliceToDense(data); mat.NewDense(0, 0, nil) panics
CallSliceToDense ==
    /\ s2d.pc = "call"
    /\ LET X == SliceToDense(s2d.data)
       IN  s2d' = [s2d EXCEPT !.pc = IF X.status = "ok" THEN "dense" ELSE X.status,
                              !.M = X.M]
    /\ UNCHANGED <<pre, stk, pls, pca, utl, csv, cli, vpc, isv>>

\* DenseToSlice(X) for the matrix SliceToDense returned
CallDenseToSlice ==
    /\ s2d.pc = "dense"
    /\ s2d' = [s2d EXCEPT !.pc = "done", !.out = DenseToSlice(s2d.M)]
    /\ UNCHANGED <<pre, stk, pls, pca, utl, csv, cli, vpc, isv>>

\* a run of the command line program, or the two conversions on their own
LoadInit == CliInit \/ S2dInit

LoadNext == CliNext \/ CallSliceToDense \/ CallDenseToSlice

SpecLoad == LoadInit /\ [][LoadNext]_vars

\* ------------------------------------------------ claims: the loaded matrix
\* the rows of data are all of the length of the first, which is not 0
NonEmptyRectangular(data) ==
    /\ Len(data) >= 1
    /\ Len(data[1]) >= 1
    /\ \A i \in 1..Len(data) : Len(data[i]) = Len(data[1])

\* M is the matrix of the rows of data
MatrixOf(M, data) ==
    /\ M.r = Len(data) /\ M.r >= 1
    /\ M.c = Len(data[1]) /\ M.c >= 1
    /\ \A i \in 1..M.r : \A j \in 1..M.c : At(M, i, j) = data[i][j]

\* C26: when ProcessCSV succeeds, SliceToDense of its Data is a matrix of at
\* least one row and column holding Data, so preprocessing and NIPALS are
\* never called on a nil or empty matrix; SliceToDense returns nil only for
\* rows of unequal lengths, and DenseToSlice(SliceToDense(d)) = d for every
\* non-empty rectangular d
C26_LoadedMatrix ==
    /\ cli.pc \notin {"idle", "start", "fatal"} =>
          /\ ProcessCSV(cli.file).err = "nil"
          /\ cli.pc \in {"loaded", "nipals", "done"}
          /\ MatrixOf(cli.X, cli.records.Data)
          /\ DenseToSlice(cli.X) = cli.records.Data
    /\ (cli.pc # "idle" /\ pca.pc # "idle") =>
          /\ cli.Xpre.r = cli.X.r /\ cli.Xpre.c = cli.X.c
          /\ pca.X0 = cli.Xpre
          /\ pca.X0.r >= 1 /\ pca.X0.c >= 1
    /\ s2d.pc = "nil" =>
          \E i \in 1..Len(s2d.data) : Len(s2d.data[i]) # Len(s2d.data[1])
    /\ s2d.pc = "panic" => ~NonEmptyRectangular(s2d.data)
    /\ (s2d.pc \notin {"idle", "call"} /\ NonEmptyRectangular(s2d.data)) =>
          /\ s2d.pc \in {"dense", "done"}
          /\ MatrixOf(s2d.M, s2d.data)
    /\ s2d.pc = "done" => s2d.out = s2d.data

\* a run whose file of two objects and two variables was loaded and handed
\* to NIPALS
C26_Witness ==
    /\ cli.pc = "nipals"
    /\ cli.X.r = 2 /\ cli.X.c = 2
    /\ cli.X.d = cli.records.Data
    /\ pca.pc = "call"

=============================================================================
